---- MODULE Spec2Model ----
(***************************************************************************)
(* A model of trekka-api's Google Drive synchronisation:                   *)
(*   - DriveService (internal/services/driveService.go): SyncFile,         *)
(*     BackfillFromDrive, WatchForChanges, and StartDriveSync              *)
(*     (internal/server/init.go) which runs them in one goroutine;         *)
(*   - FirestoreService.GetImageMetadataByFilename and                     *)
(*     ExtractAndPersistMetadata (internal/services/metadata.go);          *)
(*   - DriveClient (services/driveClient.go, unnamed/part_010):            *)
(*     waitForRateLimit, Find, DownloadBytes, ListFilesInFolder.           *)
(*                                                                         *)
(* Spec       the server: StartDriveSync's goroutine (optional backfill,   *)
(*            then the watch) while files appear, time passes and the      *)
(*            context is cancelled.                                        *)
(* SpecConverge  the server when no listing fails and nothing is cancelled, *)
(*            under fair scheduling.                                       *)
(* SpecCli    the one-shot tool: backfill passes over a fixed folder.      *)
(* SpecClient concurrent callers of one DriveClient, second by second;     *)
(*            SpecClientFair adds the scheduling of the Go runtime.        *)
(* SpecTool   one run of cmd/update-metadata, from main to its exit.       *)
(* SpecPipeline  the metadata step of the sync pipeline with its reverse   *)
(*            geocoding (services/metadata.go, services/geocoding.go).     *)
(* SpecResolver  the calls of one MetadataResolver (unnamed/part_013).     *)
(* SpecCache  the result cache (services/cache.go, unnamed/part_009).      *)
(* SpecQuery  the query strings Find and ListFilesInFolder build.          *)
(* SpecExtract  one extraction of the sync pipeline, with the coordinates  *)
(*            it handles.                                                  *)
(* SpecGeocode  the times of the sync's geocoding requests.                *)
(* SpecFormat  utils.FormatTimestamp (unnamed/part_015).                   *)
(* In Spec and SpecCli the client's calls appear with their outcome: ok,   *)
(* quota error (HTTP 403/429), other error, context error.                 *)
(***************************************************************************)
EXTENDS Integers, Sequences, FiniteSets, TLC

(***************************************************************************)
(* Bounds of the model.                                                    *)
(***************************************************************************)
MaxFiles == 4      \* SpecCli: files of the folder
MaxPasses == 2     \* SpecCli: backfill passes run
MaxRerunFiles == 1 \* SpecCli: files of a folder that is backfilled again
MaxNewFiles == 3   \* Spec: files that appear in the folder
MaxPages == 2      \* SpecClient: pages of a listing
TTL == 2           \* SpecCache: cfg.CacheTTL, in units of time
MaxClock == 5      \* SpecCache: units of time that pass
MaxRequests == 3   \* SpecPipeline: files resolved one after the other
MaxToolFiles == 2  \* SpecTool: files of the folder
MaxIdLen == 1      \* SpecQuery: characters of a folder id
MaxNameLen == 3    \* SpecQuery: characters of a file name
MaxTicks == 30     \* SpecGeocode: half seconds of the clock

(***************************************************************************)
(* Constants of the program.                                               *)
(***************************************************************************)
CircuitThreshold == 3        \* consecutiveErrors >= 3
CooldownSeconds == 300       \* backoffDuration := 5 * time.Minute
InterFileDelaySeconds == 2   \* time.Sleep(2 * time.Second)

(***************************************************************************)
(* Remote files.  A file of the folder is [id, kind, created]; its name is *)
(* <<id, extension>>, so that two files never share a base name.           *)
(***************************************************************************)
Kinds == {"jpg", "heic", "mp4", "txt"}

MimeType(kind) ==
    CASE kind = "jpg"  -> "image/jpeg"
      [] kind = "heic" -> "image/heic"
      [] kind = "mp4"  -> "video/mp4"
      [] OTHER         -> "text/plain"

Extension(kind) ==
    CASE kind = "jpg"  -> ".jpg"
      [] kind = "heic" -> ".heic"
      [] kind = "mp4"  -> ".mp4"
      [] OTHER         -> ".txt"

\* strings.HasPrefix(file.MimeType, "image/") / "video/"
IsImageMime(mime) == mime \in {"image/jpeg", "image/heic"}
IsVideoMime(mime) == mime \in {"video/mp4"}

\* utils.IsHeifLike: the lower-cased string contains "heic" or "heif".
IsHeifLike(s) == s \in {"image/heic", "image/heif", "heic", "heif", ".heic", ".heif"}

\* filepath.Ext(name)
Ext(name) == name[2]

\* strings.TrimSuffix(name, ext) + ".jpg"
WithJpgExt(name) == <<name[1], ".jpg">>

(***************************************************************************)
(* The descriptor ListFilesInFolder returns for a remote file.  The call   *)
(* asks the provider for the fields id, name, mimeType, size, createdTime, *)
(* modifiedTime and the media metadata only: every other field of          *)
(* drive.File, fileExtension among them, keeps its zero value.             *)
(***************************************************************************)
Descriptor(f) ==
    [id            |-> f.id,
     name          |-> <<f.id, Extension(f.kind)>>,
     mimeType      |-> MimeType(f.kind),
     createdTime   |-> f.created,
     fileExtension |-> ""]

Listing(folder) == [i \in 1..Len(folder) |-> Descriptor(folder[i])]

\* FirestoreService.GetImageMetadataByFilename: the name the query asks for.
LookupName(filename, fileType) ==
    IF IsHeifLike(fileType) THEN WithJpgExt(filename) ELSE filename

\* utils.hasEmptyFields / utils.HasEmptyFields
hasEmptyFields(metadata, ignoreGeoLoc) ==
    \/ (~metadata.geo /\ ~ignoreGeoLoc)
    \/ ~metadata.coords
    \/ ~metadata.date
    \/ ~metadata.taken

HasEmptyFields(metadata) == hasEmptyFields(metadata, FALSE)

\* A comparison that also takes the watermark's own instant.
AfterOrEqual(t, u) == t >= u

\* createdTime.After(lastCheck)
After(t, u) == t > u

\* errors.As(err, &apiErr) && (apiErr.Code == 403 || apiErr.Code == 429)
IsRateLimit(err) == err = "quota"

(***************************************************************************)
(* Metadata extraction and persistence (services/metadata.go).             *)
(* A record keeps, for each of its fields, whether the field is non-empty. *)
(***************************************************************************)
NoDoc == [fileName |-> <<0, "">>, storagePath |-> <<0, "">>, coords |-> FALSE,
          geo |-> FALSE, date |-> FALSE, taken |-> FALSE]

NotFound == [found |-> FALSE, doc |-> NoDoc]

\* utils.ExtractData (images: GPS, timestamp and resolution, or nothing at all)
\* and utils.ExtractMP4Data (videos: each field on its own).
ExtractOutcomes(contentType) ==
    IF IsVideoMime(contentType)
    THEN [coords : BOOLEAN, ts : {"none", "ok", "bad"}]
    ELSE {[coords |-> TRUE, ts |-> "ok"], [coords |-> FALSE, ts |-> "none"]}

\* ExtractMetadataFromBytes: the record built from what the bytes hold;
\* geoOk tells whether the reverse geocoding returned a place.
ExtractMetadataFromBytes(fileName, ex, geoOk) ==
    [fileName |-> fileName,
     storagePath |-> fileName,
     coords   |-> ex.coords,
     geo      |-> ex.coords /\ geoOk,
     date     |-> ex.ts = "ok",
     taken    |-> ex.ts = "ok"]

\* ExtractAndPersistMetadata: the record that is written.  CreatedAt is set on
\* every record the program creates, so TakenAt falls back to it.
MergeMetadata(existing, extracted) ==
    IF existing.found
    THEN [fileName |-> existing.doc.fileName,
          storagePath |-> existing.doc.storagePath,
          coords   |-> IF extracted.coords THEN TRUE ELSE existing.doc.coords,
          geo      |-> IF extracted.coords THEN extracted.geo ELSE existing.doc.geo,
          date     |-> IF extracted.taken THEN extracted.date ELSE existing.doc.date,
          taken    |-> TRUE]
    ELSE [extracted EXCEPT !.taken = TRUE]

(***************************************************************************)
(* DriveClient (services/driveClient.go): the pacing of remote calls and   *)
(* the retries of Find, DownloadBytes and ListFilesInFolder, for callers   *)
(* that share one client.  Time is counted in seconds.                     *)
(***************************************************************************)
Callers == {1, 2}

Ops == {"Find", "DownloadBytes", "ListFilesInFolder"}

\* const minDelay = 5 * time.Second
MinDelay == 5

\* lastCallTime: time.Now().Add(-3 * time.Second)
InitialElapsed == 3

\* backoff := 5 * time.Second
BackoffBase == 5

\* const maxRetries = 3 (Find, ListFilesInFolder), 5 (DownloadBytes)
MaxRetries(o) == IF o = "DownloadBytes" THEN 5 ELSE 3

\* A retry schedule that grows by the base at every attempt.
LinearBackoff(n) == BackoffBase * (n + 1)

\* sleepDuration := backoff * time.Duration(1<<uint(attempt))
Backoff(n) == BackoffBase * 2^n

\* A pacing rule that never waits.
NoPacingSleep(elapsed) == 0

\* waitForRateLimit: if elapsed < minDelay { time.Sleep(minDelay - elapsed) }
PacingSleep(elapsed) == IF elapsed < MinDelay THEN MinDelay - elapsed ELSE 0

\* The seconds a sleep is counted down from: the longest sleep whose length
\* the pacing depends on is minDelay, and a longer one is only known to have
\* at least TimerCap seconds left.
TimerCap == MinDelay + 1

Remaining(seconds) == IF seconds < TimerCap THEN seconds ELSE TimerCap

\* The error a call returns: its kind, and whether it is wrapped in a new
\* error (fmt.Errorf with %w) or the provider's error itself.
Result(kind, wrapped) == [kind |-> kind, wrapped |-> wrapped]

NoResult == Result("none", FALSE)

VARIABLES
    sinceLast,  \* seconds since lastCallTime, counted up to minDelay
    holder,     \* the caller that holds rateLimitMu, 0 when it is free
    cpc,        \* where each caller is: "idle", "lock", "pacing", "request", "backoff"
    op,         \* the method each caller runs
    attempt,    \* the method's loop variable
    page,       \* ListFilesInFolder: the page being fetched
    timer,      \* seconds left of the caller's time.Sleep, up to TimerCap
    result,     \* what the caller's last call returned
    sleeps,     \* history: the backoff sleeps of the call (of the page, for a listing)
    nreq,       \* history: remote requests of the call (of the page, for a listing)
    resp,       \* history: the outcome of the caller's last remote request
    allFiles,   \* ListFilesInFolder: the files of the pages fetched so far
    returned,   \* the files the caller's last call returned, << >> for nil
    granted,    \* history: waitForRateLimit returned and no request was made since
    lastGap     \* history: seconds between the last two updates of lastCallTime

clientVars == <<sinceLast, holder, cpc, op, attempt, page, timer, result, sleeps,
                nreq, resp, allFiles, returned, granted, lastGap>>

\* The state NewDriveClient leaves, with no caller yet.
ClientInit ==
    /\ sinceLast = InitialElapsed
    /\ holder = 0
    /\ cpc = [c \in Callers |-> "idle"]
    /\ op = [c \in Callers |-> "Find"]
    /\ attempt = [c \in Callers |-> 0]
    /\ page = [c \in Callers |-> 1]
    /\ timer = [c \in Callers |-> 0]
    /\ result = [c \in Callers |-> NoResult]
    /\ sleeps = [c \in Callers |-> << >>]
    /\ nreq = [c \in Callers |-> 0]
    /\ resp = [c \in Callers |-> "none"]
    /\ allFiles = [c \in Callers |-> << >>]
    /\ returned = [c \in Callers |-> << >>]
    /\ granted = [c \in Callers |-> FALSE]
    /\ lastGap = MinDelay

(***************************************************************************)
(* State.                                                                  *)
(***************************************************************************)
VARIABLES
    now,          \* the clock: the number of stamped events so far
    cancelled,    \* the run's context is cancelled
    remote,       \* the remote folder: the files in listing order
    store,        \* the metadata store: the set of documents
    objects,      \* the object store: the names uploaded
    passes,       \* runs started so far
    mode,         \* "cli" (passes of update-metadata -backfill), "tool" (one run
                  \* of update-metadata, from main to exit) or "server" (StartDriveSync)
    pc,           \* where the sync goroutine is
    skipExisting, \* BackfillFromDrive's parameter
    files,        \* the listing being processed
    idx,          \* files of the listing already handled
    counts,       \* newCount, errCount, consecutiveErrors, skippedCount
    lastCheck,    \* WatchForChanges' watermark
    tickDue,      \* the ticker's channel holds a tick
    watched,      \* history of the watch: the backfill's result it started after,
                  \* the failed listings since lastCheck, the files passed to SyncFile
    sleepFor,     \* the duration of the sleep in progress, in seconds
    sleepLeft,    \* instants the sleep in progress still has to last
    sf,           \* SyncFile's frame: caller, file, skipExisting, existing, final*
    sfErr,        \* SyncFile's result: "nil", "quota", "other", "ctx"
    bfResult,     \* BackfillFromDrive's result
    watchResult,  \* WatchForChanges' result
    attempted,    \* history: ids passed to SyncFile in this pass or tick
    hist,         \* history: per file of this pass, its outcome and whether a cooldown followed
    creates,      \* history: CreateImageMetadata calls of this pass or tick
    cancelAt,     \* history: what the goroutine was doing when the context was cancelled
    lookupFailed, \* history: a store lookup of this pass or tick failed
    prev,         \* history: the previous backfill pass
    trace         \* history: the path the SyncFile call that just returned took

ctxVars == <<cancelled, cancelAt>>
storeVars == <<store, objects>>
runVars == <<passes, mode, skipExisting>>
loopVars == <<files, idx, counts>>
watchVars == <<lastCheck, tickDue, watched>>
sleepVars == <<sleepFor, sleepLeft>>
frameVars == <<sf, sfErr>>
resultVars == <<bfResult, watchResult>>
histVars == <<attempted, hist, creates, lookupFailed, prev, trace>>

syncVars == <<now, remote, pc, ctxVars, storeVars, runVars, loopVars, watchVars,
              sleepVars, frameVars, resultVars, histVars>>

(***************************************************************************)
(* State of the one-shot tool (cmd/update-metadata), of the metadata       *)
(* resolution with its geocoder, and of the result cache.                  *)
(***************************************************************************)
VARIABLES
    flags,       \* the tool's flags: onlyEmpty, dryRun, backfill, skipExisting
    exit,        \* the tool's exit: its status (-1 while it runs) and what ended it
    images,      \* processImages: the records ListImageMetadata returned
    stats,       \* processImages: updated, skipped, noGPS, errors
    geoCache,    \* the cache of the GeocodingService the services share
    geoLog,      \* history: the reverse geocodings of the sync pipeline
    resolution,  \* history: the last call of resolveMetadata, inputs and result
    cache,       \* CacheService.cache
    clock,       \* time.Now() as the cache reads it
    lastCall,    \* history: the last Get or Set, its time and what it returned
    lastSet,     \* history: per key, the last Set of a key and a payload
    query,       \* history: the last query string a DriveClient method built
    extraction,  \* history: the last extraction of the sync pipeline, and its record
    geocoding,   \* the times of the sync's downloads and geocoding requests
    formatted,   \* history: the last call of FormatTimestamp, input and result
    race,        \* concurrent ReverseGeocode calls: the cache, the callers, the stores
    boot         \* the serverless entry point: its globals and its invocations

toolVars == <<flags, exit, images, stats>>
pipelineVars == <<geoCache, geoLog, resolution>>
cacheVars == <<cache, clock, lastCall, lastSet>>

concVars == <<race, boot>>

utilVars == <<query, extraction, geocoding, formatted, concVars>>

serviceVars == <<toolVars, pipelineVars, cacheVars, utilVars>>

vars == <<syncVars, clientVars, serviceVars>>

NoFile == [id |-> 0, name |-> <<0, "">>, mimeType |-> "", createdTime |-> 0,
           fileExtension |-> ""]

NoFrame == [caller |-> "", file |-> NoFile, skipExisting |-> FALSE,
            existing |-> NotFound, finalName |-> <<0, "">>, finalMime |-> "",
            finalData |-> ""]

\* The path of a SyncFile call: the last of its steps ("not media",
\* "skip existing", "complete", "download", "upload", "persist") and what the
\* conversion did ("none", "ok", "failed").
Path(step, conv) == [step |-> step, conv |-> conv]

NoTrace == Path("none", "none")

ZeroCounts == [newCount |-> 0, errCount |-> 0, consecutiveErrors |-> 0,
               skippedCount |-> 0]

NoPrev == [clean |-> FALSE, listed |-> 0]

\* No backfill returned, no listing failed, no file was passed to SyncFile.
\* The failed listings and the files are recorded in the specification of
\* the watch only (audit).
NoWatched == [audit |-> FALSE, after |-> "none", missed |-> {}, tried |-> {}]

\* The listing of a tick failed at t.
Missed(w, t) == IF w.audit THEN [w EXCEPT !.after = "none", !.missed = {t}]
                ELSE [w EXCEPT !.after = "none"]

\* A tick's call of SyncFile for a file returned.
Tried(w, id, failed) ==
    IF w.audit THEN [w EXCEPT !.tried = @ \cup {[id |-> id, failed |-> failed]}] ELSE w

\* The state before a run over the remote folder `folder`, with the records
\* `docs` in the metadata store and `objs` in the object store.
SyncInitWith(folder, docs, objs, w) ==
    /\ now = 0
    /\ cancelled = FALSE
    /\ remote = folder
    /\ store = docs
    /\ objects = objs
    /\ passes = 0
    /\ mode = ""
    /\ pc = "idle"
    /\ skipExisting = FALSE
    /\ files = << >>
    /\ idx = 0
    /\ counts = ZeroCounts
    /\ lastCheck = 0
    /\ tickDue = FALSE
    /\ watched = w
    /\ sleepFor = 0
    /\ sleepLeft = 0
    /\ sf = NoFrame
    /\ sfErr = "nil"
    /\ bfResult = "none"
    /\ watchResult = "none"
    /\ attempted = << >>
    /\ hist = << >>
    /\ creates = 0
    /\ cancelAt = ""
    /\ lookupFailed = FALSE
    /\ prev = NoPrev
    /\ trace = NoTrace

\* The state before any run, over the remote folder `folder`.
SyncInitOver(folder, docs, objs) == SyncInitWith(folder, docs, objs, NoWatched)

SyncInit(folder) == SyncInitOver(folder, {}, {})

\* flag.Bool("only-empty", false, ...), ("dry-run", false, ...),
\* ("backfill", false, ...), ("skip-existing", true, ...)
Flags(onlyEmpty, dryRun, backfill, skip) ==
    [onlyEmpty |-> onlyEmpty, dryRun |-> dryRun, backfill |-> backfill,
     skipExisting |-> skip]

DefaultFlags == Flags(FALSE, FALSE, FALSE, TRUE)

\* The exit of the process: its status and what ended it.
Exit(code, cause) == [code |-> code, cause |-> cause]

Running == Exit(-1, "")

\* stats: updated, skipped, noGPS, errors
ZeroStats == [updated |-> 0, skipped |-> 0, noGPS |-> 0, errors |-> 0]

\* The tool before main runs, started with the flags `fl`.
ToolInit(fl) ==
    /\ flags = fl
    /\ exit = Running
    /\ images = << >>
    /\ stats = ZeroStats

(***************************************************************************)
(* The environment: the provider's folder, the clock, the shutdown.        *)
(***************************************************************************)
BackfillPcs == {"bf_list", "bf_loop", "bf_delay", "bf_after", "bf_cooldown", "bf_ret"}
WatchPcs == {"w_select", "w_list", "w_loop", "w_after", "w_ret"}
SyncFilePcs == {"sf_fetch", "sf_store"}

InWatch == pc \in WatchPcs \/ (pc \in SyncFilePcs /\ sf.caller = "watch")
InBackfill == pc \in BackfillPcs \/ (pc \in SyncFilePcs /\ sf.caller = "backfill")

\* A file appears in the remote folder.  The clock counts the events that
\* are stamped: the provider stamps the file with an instant later than
\* every time read before, and a later time.Now() is not before it.
\* The folder is followed from the start of the sync to its end: a file that
\* was there before is a file that appears before the first listing.
CreateFile ==
    /\ pc \notin {"idle", "exit"}
    /\ Len(remote) < MaxNewFiles
    /\ now' = now + 1
    /\ \E kind \in Kinds :
          remote' = Append(remote, [id |-> Len(remote) + 1, kind |-> kind,
                                    created |-> now'])
    /\ UNCHANGED <<clientVars, serviceVars>>
    /\ UNCHANGED <<pc, ctxVars, storeVars, runVars, loopVars, watchVars, sleepVars,
                   frameVars, resultVars, histVars>>

\* Time passes: the sleep in progress ends and the ticker fires.
Tick ==
    /\ pc \notin {"idle", "exit"}
    /\ sleepLeft' = IF sleepLeft > 0 THEN sleepLeft - 1 ELSE 0
    /\ tickDue' = (tickDue \/ InWatch)
    /\ UNCHANGED <<clientVars, serviceVars>>
    /\ UNCHANGED <<now, remote, pc, ctxVars, storeVars, runVars, loopVars, lastCheck,
                   watched, sleepFor, frameVars, resultVars, histVars>>

\* What the goroutine is doing at `p`: listing, sleeping, syncing a file
\* (the last of the listing or not), or between two of these.
Activity(p) ==
    CASE p \in {"bf_list", "w_list"}        -> "listing"
      [] p \in {"bf_delay", "bf_cooldown"}  -> "sleeping"
      [] p \in SyncFilePcs                  ->
            IF idx + 1 = Len(files) THEN "last file" ELSE "file"
      [] OTHER                              -> "between"

\* The cancel function StartDriveSync returned is called (shutdown).
Cancel ==
    /\ mode = "server"
    /\ pc \notin {"idle", "exit"}
    /\ ~cancelled
    /\ cancelled' = TRUE
    /\ cancelAt' = Activity(pc)
    /\ UNCHANGED <<clientVars, serviceVars>>
    /\ UNCHANGED <<now, remote, pc, storeVars, runVars, loopVars, watchVars, sleepVars,
                   frameVars, resultVars, histVars>>

(***************************************************************************)
(* The callers of DriveService.                                            *)
(***************************************************************************)
\* server.StartDriveSync: the goroutine runs the backfill if backfillOnStartup
\* and the watch after it.  WatchForChanges starts with lastCheck := time.Now().
\* The call in init.go names no skipExisting argument: both values are kept.
StartDriveSync ==
    /\ pc = "idle"
    /\ passes = 0
    /\ passes' = 1
    /\ mode' = "server"
    /\ \E backfillOnStartup \in BOOLEAN, skip \in BOOLEAN :
          IF backfillOnStartup
          THEN /\ pc' = "bf_list"
               /\ skipExisting' = skip
               /\ UNCHANGED lastCheck
          ELSE /\ ~skip
               /\ pc' = "w_select"
               /\ skipExisting' = FALSE
               /\ lastCheck' = now
    /\ UNCHANGED <<clientVars, serviceVars>>
    /\ UNCHANGED <<now, remote, ctxVars, storeVars, loopVars, tickDue, watched, sleepVars,
                   frameVars, resultVars, histVars>>

\* cmd/update-metadata with -backfill: one BackfillFromDrive(ctx, skipExisting)
\* under context.Background().
RunBackfillTool ==
    /\ pc = "idle"
    /\ passes < MaxPasses
    /\ passes > 0 => Len(remote) <= MaxRerunFiles
    /\ passes' = passes + 1
    /\ mode' = "cli"
    /\ \E skip \in BOOLEAN : skipExisting' = skip
    /\ pc' = "bf_list"
    /\ UNCHANGED <<clientVars, serviceVars>>
    /\ UNCHANGED <<now, remote, ctxVars, storeVars, loopVars, watchVars, sleepVars,
                   frameVars, resultVars, histVars>>

(***************************************************************************)
(* DriveService.SyncFile, in the steps at which it can block.              *)
(***************************************************************************)
\* The call of SyncFile(ctx, file, skip) by `caller`.
Frame(caller, file, skip) ==
    [caller |-> caller, file |-> file, skipExisting |-> skip, existing |-> NotFound,
     finalName |-> file.name, finalMime |-> file.mimeType, finalData |-> "raw"]

AfterPc(caller) == IF caller = "backfill" THEN "bf_after" ELSE "w_after"

\* SyncFile returns err to its caller.
SyncFileReturn(err) ==
    /\ sfErr' = err
    /\ pc' = AfterPc(sf.caller)
    /\ sf' = NoFrame

\* The documents the query Where("fileName", "==", name).Limit(1) can return.
DocsNamed(name) == {d \in store : d.fileName = name}

\* GetImageMetadataByFilename's results as SyncFile keeps them
\* (existing, _ := ...): a document, or nil when there is none and when the
\* query fails.
LookupResults(file) ==
    LET named == DocsNamed(LookupName(file.name, file.fileExtension))
    IN  IF cancelled
        THEN {[res |-> NotFound, failed |-> TRUE]}
        ELSE {[res |-> [found |-> TRUE, doc |-> d], failed |-> FALSE] : d \in named}
             \cup {[res |-> NotFound, failed |-> (named # {})]}

\* The outcomes of a call through the remote client or the object store.
CallOutcomes == IF cancelled THEN {"ctx"} ELSE {"nil", "quota", "other"}

\* SyncFile's two skip rules.
Skips(skip, existing) ==
    \/ (skip /\ existing.found)
    \/ (existing.found /\ ~HasEmptyFields(existing.doc))

\* The rule SyncFile skips the file by, "" when it goes on to the download.
SkipStep(skip, existing) ==
    IF skip /\ existing.found THEN "skip existing"
    ELSE IF existing.found /\ ~HasEmptyFields(existing.doc) THEN "complete"
    ELSE ""

\* The returns of SyncFile before the download.
SkipSteps == {"not media", "skip existing", "complete"}

\* A conversion that renames the file whether or not the transcode worked.
ConvertedAlways(file, convOk) ==
    IF IsHeifLike(file.mimeType)
    THEN [name |-> IF Ext(file.name) # "" THEN WithJpgExt(file.name) ELSE file.name,
          mime |-> "image/jpeg",
          data |-> IF convOk THEN "jpeg" ELSE "raw"]
    ELSE [name |-> file.name, mime |-> file.mimeType, data |-> "raw"]

\* The name, the type and the bytes to upload: HEIC is converted to JPEG, and
\* a failed conversion keeps the original.
Converted(file, convOk) ==
    IF IsHeifLike(file.mimeType) /\ convOk
    THEN [name |-> IF Ext(file.name) # "" THEN WithJpgExt(file.name) ELSE file.name,
          mime |-> "image/jpeg",
          data |-> "jpeg"]
    ELSE [name |-> file.name, mime |-> file.mimeType, data |-> "raw"]

\* What utils.ConvertHeicToJpeg did for the file.
Conversion(file, convOk) ==
    IF ~IsHeifLike(file.mimeType) THEN "none"
    ELSE IF convOk THEN "ok" ELSE "failed"

\* The media check, the lookup, the skip rules, then DownloadBytes under the
\* five-minute timeout and the conversion.
SyncFileFetch ==
    /\ pc = "sf_fetch"
    /\ IF ~IsImageMime(sf.file.mimeType) /\ ~IsVideoMime(sf.file.mimeType)
       THEN /\ SyncFileReturn("nil")
            /\ trace' = Path("not media", "none")
            /\ UNCHANGED lookupFailed
       ELSE \E r \in LookupResults(sf.file) :
               /\ lookupFailed' = (lookupFailed \/ r.failed)
               /\ IF Skips(sf.skipExisting, r.res)
                  THEN /\ SyncFileReturn("nil")
                       /\ trace' = Path(SkipStep(sf.skipExisting, r.res), "none")
                  ELSE \E err \in CallOutcomes, convOk \in BOOLEAN :
                          /\ convOk \/ (err = "nil" /\ IsHeifLike(sf.file.mimeType))
                          /\ IF err # "nil"
                             THEN /\ SyncFileReturn(err)
                                  /\ trace' = Path("download", "none")
                             ELSE /\ sf' = [sf EXCEPT
                                       !.existing = r.res,
                                       !.finalName = Converted(sf.file, convOk).name,
                                       !.finalMime = Converted(sf.file, convOk).mime,
                                       !.finalData = Converted(sf.file, convOk).data]
                                  /\ pc' = "sf_store"
                                  /\ trace' = Path("download",
                                                   Conversion(sf.file, convOk))
                                  /\ UNCHANGED sfErr
    /\ UNCHANGED <<clientVars, serviceVars>>
    /\ UNCHANGED <<now, remote, ctxVars, storeVars, runVars, loopVars, watchVars,
                   sleepVars, resultVars, attempted, hist, creates, prev>>

\* What ExtractAndPersistMetadata writes: a new document when the lookup found
\* none (CreateImageMetadata), the found one replaced otherwise.
Persisted(docs, existing, metadata) ==
    IF existing.found
    THEN (docs \ {existing.doc}) \cup {metadata}
    ELSE docs \cup {metadata}

\* An upload that stores the bytes under the name the remote file has.
ObjectAsListed(filePath, data, contentType) ==
    [name |-> sf.file.name, data |-> data, contentType |-> contentType]

\* The object UploadFile(ctx, filePath, data, contentType) writes.
Object(filePath, data, contentType) ==
    [name |-> filePath, data |-> data, contentType |-> contentType]

\* storage.UploadFile, then resolveAndPersist.
SyncFileStore ==
    /\ pc = "sf_store"
    /\ \E err \in CallOutcomes :
          IF err # "nil"
          THEN /\ SyncFileReturn(err)
               /\ trace' = Path("upload", trace.conv)
               /\ UNCHANGED <<store, objects, creates>>
          ELSE \E ex \in ExtractOutcomes(sf.finalMime), geoOk \in BOOLEAN,
                  writeOk \in BOOLEAN :
                  LET extracted == ExtractMetadataFromBytes(sf.finalName, ex, geoOk)
                      metadata == MergeMetadata(sf.existing, extracted)
                  IN  /\ geoOk => ex.coords
                      /\ objects' = objects \cup
                            {Object(sf.finalName, sf.finalData, sf.finalMime)}
                      /\ trace' = Path("persist", trace.conv)
                      /\ creates' = IF sf.existing.found THEN creates ELSE creates + 1
                      /\ store' = IF writeOk
                                  THEN Persisted(store, sf.existing, metadata)
                                  ELSE store
                      /\ SyncFileReturn(IF writeOk THEN "nil" ELSE "other")
    /\ UNCHANGED <<clientVars, serviceVars>>
    /\ UNCHANGED <<now, remote, ctxVars, runVars, loopVars, watchVars, sleepVars,
                   resultVars, attempted, hist, lookupFailed, prev>>

(***************************************************************************)
(* DriveService.BackfillFromDrive.                                         *)
(***************************************************************************)
\* ListFilesInFolder: an error is returned as the client built it
\* ("list files failed: %w"), whatever its cause.
BackfillList ==
    /\ pc = "bf_list"
    /\ \E err \in CallOutcomes :
          IF err # "nil"
          THEN /\ bfResult' = "list failed"
               /\ pc' = "bf_ret"
               /\ files' = << >>
          ELSE /\ files' = Listing(remote)
               /\ pc' = "bf_loop"
               /\ UNCHANGED bfResult
    /\ idx' = 0
    /\ counts' = ZeroCounts
    /\ attempted' = << >>
    /\ hist' = << >>
    /\ creates' = 0
    /\ lookupFailed' = FALSE
    /\ UNCHANGED <<clientVars, serviceVars>>
    /\ UNCHANGED <<now, remote, ctxVars, storeVars, runVars, watchVars, sleepVars,
                   frameVars, watchResult, prev, trace>>

\* A result that reads the counter of consecutive failures.
BackfillOutcomeOfLast(c) == IF c.consecutiveErrors > 0 THEN "errors" ELSE "nil"

\* The result of a pass that handled every file.
BackfillOutcome(c) == IF c.errCount > 0 THEN "errors" ELSE "nil"

\* The head of the loop: the context check, then the inter-file delay.
BackfillLoop ==
    /\ pc = "bf_loop"
    /\ IF idx = Len(files)
       THEN /\ bfResult' = BackfillOutcome(counts)
            /\ pc' = "bf_ret"
            /\ UNCHANGED sleepVars
       ELSE IF cancelled
            THEN /\ bfResult' = "canceled"
                 /\ pc' = "bf_ret"
                 /\ UNCHANGED sleepVars
            ELSE /\ pc' = "bf_delay"
                 /\ sleepFor' = InterFileDelaySeconds
                 /\ sleepLeft' = 1
                 /\ UNCHANGED bfResult
    /\ UNCHANGED <<clientVars, serviceVars>>
    /\ UNCHANGED <<now, remote, ctxVars, storeVars, runVars, loopVars, watchVars,
                   frameVars, watchResult, histVars>>

\* time.Sleep(2 * time.Second) is over: SyncFile(ctx, file, skipExisting).
BackfillSync ==
    /\ pc = "bf_delay"
    /\ sleepLeft = 0
    /\ sf' = Frame("backfill", files[idx + 1], skipExisting)
    /\ pc' = "sf_fetch"
    /\ sleepFor' = 0
    /\ attempted' = Append(attempted, files[idx + 1].id)
    /\ UNCHANGED <<clientVars, serviceVars>>
    /\ UNCHANGED <<now, remote, ctxVars, storeVars, runVars, loopVars, watchVars,
                   sleepLeft, sfErr, resultVars, hist, creates, lookupFailed, prev,
                   trace>>

\* The circuit breaker's condition, on the counter already incremented.
CircuitOpen(err, consecutiveErrors) ==
    IsRateLimit(err) /\ consecutiveErrors >= CircuitThreshold

\* The counters after SyncFile failed with err.
OnSyncError(c) ==
    [c EXCEPT !.errCount = c.errCount + 1,
              !.consecutiveErrors = c.consecutiveErrors + 1]

\* The counters after SyncFile returned nil.
OnSyncSuccess(c) ==
    [c EXCEPT !.consecutiveErrors = 0, !.newCount = c.newCount + 1]

\* The history's entry for the file SyncFile just returned from.
Entry(res, cooldown) ==
    [res |-> res, cooldown |-> cooldown, skipped |-> trace.step \in SkipSteps]

\* A loop that gives the pass up at the first file that fails.
BackfillAfterSyncAbort ==
    /\ pc = "bf_after"
    /\ IF sfErr # "nil"
       THEN /\ counts' = OnSyncError(counts)
            /\ bfResult' = "errors"
            /\ pc' = "bf_ret"
            /\ hist' = Append(hist, Entry(sfErr, FALSE))
            /\ UNCHANGED idx
       ELSE /\ counts' = OnSyncSuccess(counts)
            /\ pc' = "bf_loop"
            /\ idx' = idx + 1
            /\ hist' = Append(hist, Entry("ok", FALSE))
            /\ UNCHANGED bfResult
    /\ sfErr' = "nil"
    /\ trace' = NoTrace
    /\ UNCHANGED <<clientVars, serviceVars>>
    /\ UNCHANGED <<now, remote, ctxVars, storeVars, runVars, files, watchVars, sf,
                   sleepVars, watchResult, attempted, creates, lookupFailed, prev>>

\* SyncFile returned: count, and sleep five minutes when the circuit opens.
BackfillAfterSync ==
    /\ pc = "bf_after"
    /\ IF sfErr # "nil"
       THEN /\ counts' = OnSyncError(counts)
            /\ IF CircuitOpen(sfErr, counts'.consecutiveErrors)
               THEN /\ pc' = "bf_cooldown"
                    /\ sleepFor' = CooldownSeconds
                    /\ sleepLeft' = 1
                    /\ hist' = Append(hist, Entry(sfErr, TRUE))
                    /\ UNCHANGED idx
               ELSE /\ pc' = "bf_loop"
                    /\ idx' = idx + 1
                    /\ hist' = Append(hist, Entry(sfErr, FALSE))
                    /\ UNCHANGED sleepVars
       ELSE /\ counts' = OnSyncSuccess(counts)
            /\ pc' = "bf_loop"
            /\ idx' = idx + 1
            /\ hist' = Append(hist, Entry("ok", FALSE))
            /\ UNCHANGED sleepVars
    /\ sfErr' = "nil"
    /\ trace' = NoTrace
    /\ UNCHANGED <<clientVars, serviceVars>>
    /\ UNCHANGED <<now, remote, ctxVars, storeVars, runVars, files, watchVars, sf,
                   resultVars, attempted, creates, lookupFailed, prev>>

\* time.Sleep(5 * time.Minute) is over: the counter restarts, next file.
BackfillCooldownEnd ==
    /\ pc = "bf_cooldown"
    /\ sleepLeft = 0
    /\ counts' = [counts EXCEPT !.consecutiveErrors = 0]
    /\ idx' = idx + 1
    /\ pc' = "bf_loop"
    /\ sleepFor' = 0
    /\ UNCHANGED <<clientVars, serviceVars>>
    /\ UNCHANGED <<now, remote, ctxVars, storeVars, runVars, files, watchVars,
                   sleepLeft, frameVars, resultVars, histVars>>

\* A server that watches only after a backfill without errors.
StartsWatchAfterSuccess(err) == err = "nil"

\* StartDriveSync's test on the backfill's result: err != context.Canceled.
StartsWatch(err) == err # "canceled"

\* A pass in which every listed file was handled without an error and
\* without skipExisting.
CleanPass == bfResult = "nil" /\ ~skipExisting /\ ~lookupFailed

\* BackfillFromDrive returns to its caller: the tool ends; the server's
\* goroutine goes on with WatchForChanges unless the result is
\* context.Canceled.
BackfillReturn ==
    /\ pc = "bf_ret"
    /\ IF mode = "server"
       THEN /\ IF StartsWatch(bfResult)
               THEN /\ pc' = "w_select"
                    /\ lastCheck' = now
               ELSE /\ pc' = "exit"
                    /\ UNCHANGED lastCheck
            /\ watched' = [watched EXCEPT !.after = bfResult]
            /\ skipExisting' = FALSE
            /\ UNCHANGED prev
       ELSE /\ pc' = "idle"
            /\ prev' = [clean |-> CleanPass, listed |-> Len(files)]
            /\ UNCHANGED <<lastCheck, watched, skipExisting>>
    /\ bfResult' = "none"
    /\ files' = << >>
    /\ idx' = 0
    /\ counts' = ZeroCounts
    /\ attempted' = << >>
    /\ hist' = << >>
    /\ creates' = 0
    /\ lookupFailed' = FALSE
    /\ UNCHANGED <<clientVars, serviceVars>>
    /\ UNCHANGED <<now, remote, ctxVars, storeVars, passes, mode, tickDue, sleepVars,
                   frameVars, watchResult, trace>>

(***************************************************************************)
(* cmd/update-metadata: main and processImages, one run of the process.    *)
(* pc is "idle" before main, "process" in processImages, the pc of the     *)
(* backfill in backfill mode, and "exit" when the process has ended.       *)
(***************************************************************************)
\* What can go wrong before main has its services: config.Load,
\* storage.NewClient, firestore.NewClient.
SetupOutcomes == {"ok", "load config", "storage client", "firestore client"}

\* The orders in which a query can return the documents `docs`.
Orders(docs) ==
    {q \in [1..Cardinality(docs) -> docs] :
        \A i, j \in 1..Cardinality(docs) : i # j => q[i] # q[j]}

\* The contentType of a record, which was stored along with its name.
ContentType(fileName) ==
    CASE Ext(fileName) = ".jpg"  -> "image/jpeg"
      [] Ext(fileName) = ".heic" -> "image/heic"
      [] Ext(fileName) = ".mp4"  -> "video/mp4"
      [] OTHER                   -> "text/plain"

\* logger.Fatalf: the process exits with status 1.
Fatalf(cause) ==
    /\ exit' = Exit(1, cause)
    /\ pc' = "exit"

\* main, from flag.Parse to the first call that blocks: the setup, then
\* BackfillFromDrive in backfill mode, ListImageMetadata otherwise.
Main ==
    /\ pc = "idle"
    /\ exit = Running
    /\ \E setup \in SetupOutcomes, driveService \in BOOLEAN, listed \in BOOLEAN :
          IF setup # "ok"
          THEN /\ Fatalf(setup)
               /\ UNCHANGED <<mode, skipExisting, passes, images>>
          ELSE IF flags.backfill
          THEN IF ~driveService
               THEN /\ Fatalf("drive credentials")
                    /\ UNCHANGED <<mode, skipExisting, passes, images>>
               ELSE /\ pc' = "bf_list"
                    /\ mode' = "tool"
                    /\ skipExisting' = flags.skipExisting
                    /\ passes' = passes + 1
                    /\ UNCHANGED <<exit, images>>
          ELSE IF ~listed
               THEN /\ Fatalf("list images")
                    /\ UNCHANGED <<mode, skipExisting, passes, images>>
               ELSE /\ \E q \in Orders(store) : images' = q
                    /\ pc' = "process"
                    /\ mode' = "tool"
                    /\ UNCHANGED <<exit, skipExisting, passes>>
    /\ UNCHANGED <<flags, stats>>
    /\ UNCHANGED <<now, remote, ctxVars, storeVars, loopVars, watchVars, sleepVars,
                   frameVars, resultVars, histVars>>
    /\ UNCHANGED <<clientVars, pipelineVars, cacheVars, utilVars>>

\* stats.<field>++
Counted(field) == [stats EXCEPT ![field] = @ + 1]

\* processImages: the body of the loop for the next record.
ProcessImage ==
    /\ pc = "process"
    /\ images # << >>
    /\ LET img == Head(images) IN
       IF flags.onlyEmpty /\ ~HasEmptyFields(img)
       THEN /\ stats' = Counted("skipped")
            /\ UNCHANGED store
       ELSE \E fetched \in BOOLEAN :
            IF ~fetched
            THEN /\ stats' = Counted("errors")
                 /\ UNCHANGED store
            ELSE \E ex \in ExtractOutcomes(ContentType(img.fileName)),
                    geoOk \in BOOLEAN, writeOk \in BOOLEAN :
                    LET extracted == ExtractMetadataFromBytes(img.fileName, ex, geoOk)
                        existing == [found |-> TRUE, doc |-> img]
                    IN  /\ geoOk => ex.coords
                        /\ IF flags.dryRun
                           THEN /\ stats' = Counted("updated")
                                /\ UNCHANGED store
                           ELSE IF writeOk
                           THEN /\ store' = Persisted(store, existing,
                                                      MergeMetadata(existing, extracted))
                                /\ stats' = Counted("updated")
                           ELSE /\ stats' = Counted("errors")
                                /\ UNCHANGED store
    /\ images' = Tail(images)
    /\ UNCHANGED <<flags, exit>>
    /\ UNCHANGED <<now, remote, pc, ctxVars, objects, runVars, loopVars, watchVars,
                   sleepVars, frameVars, resultVars, histVars>>
    /\ UNCHANGED <<clientVars, pipelineVars, cacheVars, utilVars>>

\* processImages returns: main logs the stats and returns.
ProcessDone ==
    /\ pc = "process"
    /\ images = << >>
    /\ exit' = Exit(0, "done")
    /\ pc' = "exit"
    /\ UNCHANGED <<flags, images, stats>>
    /\ UNCHANGED <<now, remote, ctxVars, storeVars, runVars, loopVars, watchVars,
                   sleepVars, frameVars, resultVars, histVars>>
    /\ UNCHANGED <<clientVars, pipelineVars, cacheVars, utilVars>>

\* if err := driveService.BackfillFromDrive(...); err != nil { logger.Fatalf }
ExitAfterBackfill(err) ==
    IF err = "nil" THEN Exit(0, "backfill complete") ELSE Exit(1, err)

\* BackfillFromDrive returns to main.
MainAfterBackfill ==
    /\ pc = "bf_ret"
    /\ mode = "tool"
    /\ exit' = ExitAfterBackfill(bfResult)
    /\ pc' = "exit"
    /\ UNCHANGED <<flags, images, stats>>
    /\ UNCHANGED <<now, remote, ctxVars, storeVars, runVars, loopVars, watchVars,
                   sleepVars, frameVars, resultVars, histVars>>
    /\ UNCHANGED <<clientVars, pipelineVars, cacheVars, utilVars>>

(***************************************************************************)
(* DriveService.WatchForChanges.                                           *)
(***************************************************************************)
\* select: case <-ctx.Done(): return ctx.Err()
WatchDone ==
    /\ pc = "w_select"
    /\ cancelled
    /\ watchResult' = "canceled"
    /\ pc' = "w_ret"
    /\ UNCHANGED <<clientVars, serviceVars>>
    /\ UNCHANGED <<now, remote, ctxVars, storeVars, runVars, loopVars, watchVars,
                   sleepVars, frameVars, bfResult, histVars>>

\* select: case <-ticker.C
WatchTick ==
    /\ pc = "w_select"
    /\ tickDue
    /\ tickDue' = FALSE
    /\ pc' = "w_list"
    /\ UNCHANGED <<clientVars, serviceVars>>
    /\ UNCHANGED <<now, remote, ctxVars, storeVars, runVars, loopVars, lastCheck,
                   watched, sleepVars, frameVars, resultVars, histVars>>

\* A watch that counts a tick whose listing failed as a check.
SinceAfterErrorIsNow(since, t) == t

\* lastCheck after a tick whose listing failed: 'continue' leaves it.
SinceAfterError(since, t) == since

\* ListFilesInFolder: on an error the tick is given up, lastCheck as it was.
WatchList ==
    /\ pc = "w_list"
    /\ \E err \in CallOutcomes :
          IF err # "nil"
          THEN /\ pc' = "w_select"
               /\ files' = << >>
               /\ lastCheck' = SinceAfterError(lastCheck, now)
               /\ watched' = Missed(watched, now)
          ELSE /\ files' = Listing(remote)
               /\ pc' = "w_loop"
               /\ watched' = [watched EXCEPT !.after = "none"]
               /\ UNCHANGED lastCheck
    /\ idx' = 0
    /\ attempted' = << >>
    /\ creates' = 0
    /\ lookupFailed' = FALSE
    /\ UNCHANGED <<clientVars, serviceVars>>
    /\ UNCHANGED <<now, remote, ctxVars, storeVars, runVars, counts, tickDue,
                   sleepVars, frameVars, resultVars, hist, prev, trace>>

\* The tick's test on a file.  The provider writes createdTime in RFC 3339,
\* so time.Parse succeeds.
IsNewFile(file, since) == After(file.createdTime, since)

\* One file of the tick, or the end of the tick: lastCheck = time.Now().
WatchLoop ==
    /\ pc = "w_loop"
    /\ IF idx = Len(files)
       THEN /\ lastCheck' = now
            /\ watched' = [watched EXCEPT !.missed = {}]
            /\ pc' = "w_select"
            /\ files' = << >>
            /\ idx' = 0
            /\ attempted' = << >>
            /\ creates' = 0
            /\ lookupFailed' = FALSE
            /\ UNCHANGED sf
       ELSE IF IsNewFile(files[idx + 1], lastCheck)
            THEN /\ sf' = Frame("watch", files[idx + 1], FALSE)
                 /\ pc' = "sf_fetch"
                 /\ attempted' = Append(attempted, files[idx + 1].id)
                 /\ UNCHANGED <<lastCheck, watched, files, idx, creates, lookupFailed>>
            ELSE /\ idx' = idx + 1
                 /\ UNCHANGED <<lastCheck, watched, pc, files, sf, attempted, creates,
                                lookupFailed>>
    /\ UNCHANGED <<clientVars, serviceVars>>
    /\ UNCHANGED <<now, remote, ctxVars, storeVars, runVars, counts, tickDue,
                   sleepVars, sfErr, resultVars, hist, prev, trace>>

\* SyncFile returned: an error is logged, the tick goes on.
WatchAfterSync ==
    /\ pc = "w_after"
    /\ idx' = idx + 1
    /\ pc' = "w_loop"
    /\ watched' = Tried(watched, files[idx + 1].id, sfErr # "nil")
    /\ sfErr' = "nil"
    /\ trace' = NoTrace
    /\ UNCHANGED <<clientVars, serviceVars>>
    /\ UNCHANGED <<now, remote, ctxVars, storeVars, runVars, files, counts, lastCheck, tickDue,
                   sleepVars, sf, resultVars, attempted, hist, creates, lookupFailed,
                   prev>>

\* WatchForChanges returns: the goroutine ends.
WatchReturn ==
    /\ pc = "w_ret"
    /\ pc' = "exit"
    /\ UNCHANGED <<clientVars, serviceVars>>
    /\ UNCHANGED <<now, remote, ctxVars, storeVars, runVars, loopVars, watchVars,
                   sleepVars, frameVars, resultVars, histVars>>

(***************************************************************************)
(* DriveClient: the steps of a call.                                       *)
(***************************************************************************)
\* A goroutine calls Find, DownloadBytes or ListFilesInFolder.
Call(c) ==
    /\ cpc[c] = "idle"
    /\ \E o \in Ops : op' = [op EXCEPT ![c] = o]
    /\ cpc' = [cpc EXCEPT ![c] = "lock"]
    /\ attempt' = [attempt EXCEPT ![c] = 0]
    /\ page' = [page EXCEPT ![c] = 1]
    /\ result' = [result EXCEPT ![c] = NoResult]
    /\ sleeps' = [sleeps EXCEPT ![c] = << >>]
    /\ nreq' = [nreq EXCEPT ![c] = 0]
    /\ resp' = [resp EXCEPT ![c] = "none"]
    /\ allFiles' = [allFiles EXCEPT ![c] = << >>]
    /\ returned' = [returned EXCEPT ![c] = << >>]
    /\ UNCHANGED <<sinceLast, holder, timer, granted, lastGap>>
    /\ UNCHANGED <<syncVars, serviceVars>>

\* waitForRateLimit returns: lastCallTime = time.Now(), and the deferred
\* Unlock.
Granted(c) ==
    /\ lastGap' = sinceLast
    /\ sinceLast' = 0
    /\ holder' = 0
    /\ cpc' = [cpc EXCEPT ![c] = "request"]
    /\ granted' = [granted EXCEPT ![c] = TRUE]

\* waitForRateLimit: rateLimitMu.Lock(), then the sleep of what is missing
\* to minDelay, with the lock held.
Acquire(c) ==
    /\ cpc[c] = "lock"
    /\ holder = 0
    /\ IF PacingSleep(sinceLast) > 0
       THEN /\ holder' = c
            /\ cpc' = [cpc EXCEPT ![c] = "pacing"]
            /\ timer' = [timer EXCEPT ![c] = Remaining(PacingSleep(sinceLast))]
            /\ UNCHANGED <<sinceLast, granted, lastGap>>
       ELSE /\ Granted(c)
            /\ UNCHANGED timer
    /\ UNCHANGED <<op, attempt, page, result, sleeps, nreq, resp, allFiles, returned>>
    /\ UNCHANGED <<syncVars, serviceVars>>

\* The pacing sleep is over.
Grant(c) ==
    /\ cpc[c] = "pacing"
    /\ timer[c] = 0
    /\ Granted(c)
    /\ UNCHANGED <<op, attempt, page, timer, result, sleeps, nreq, resp, allFiles,
                   returned>>
    /\ UNCHANGED <<syncVars, serviceVars>>

\* The call returns r, and the files fs with it.
ReturnFiles(c, r, fs) ==
    /\ cpc' = [cpc EXCEPT ![c] = "idle"]
    /\ result' = [result EXCEPT ![c] = r]
    /\ attempt' = [attempt EXCEPT ![c] = 0]
    /\ page' = [page EXCEPT ![c] = 1]
    /\ allFiles' = [allFiles EXCEPT ![c] = << >>]
    /\ returned' = [returned EXCEPT ![c] = fs]

\* The call returns r, and nil for its files.
Return(c, r) == ReturnFiles(c, r, << >>)

\* The files of the pages of the folder that is listed: fileList.Files.
PageFiles(p) == IF p = 1 THEN <<1, 2>> ELSE <<2 * p - 1>>

\* A listing that keeps the last page it fetched.
LastPage(all, fs) == fs

\* allFiles = append(allFiles, fileList.Files...)
AppendFiles(all, fs) == all \o fs

\* What ListFilesInFolder returns when the page with no next-page token is
\* there (return allFiles, nil); the other methods return no list.
Served(c) ==
    IF op[c] = "ListFilesInFolder"
    THEN AppendFiles(allFiles[c], PageFiles(page[c]))
    ELSE << >>

\* What the method returns for an error it does not retry: ListFilesInFolder
\* wraps it ("list files failed: %w"), the others return it as it is.
Failure(o, kind) == Result(kind, o = "ListFilesInFolder")

\* The outcomes of a request: served, refused for quota (HTTP 403 or 429),
\* failed otherwise; a served Find may match no file, a served download may
\* break while its body is read, a served page may name a next page.
Outcomes(o, p) ==
    {"ok", "quota", "other"}
    \cup (IF o = "Find" THEN {"empty"} ELSE {})
    \cup (IF o = "DownloadBytes" THEN {"body"} ELSE {})
    \cup (IF o = "ListFilesInFolder" /\ p < MaxPages THEN {"more"} ELSE {})

\* A test that takes every failed request for a refusal for quota.
Errored(out) == out \in {"quota", "other"}

\* errors.As(err, &apiErr) && (apiErr.Code == 403 || apiErr.Code == 429)
RateLimited(out) == out = "quota"

\* The remote request and what the method does with its outcome.
Request(c) ==
    /\ cpc[c] = "request"
    /\ granted' = [granted EXCEPT ![c] = FALSE]
    /\ \E out \in Outcomes(op[c], page[c]) :
          /\ resp' = [resp EXCEPT ![c] = out]
          /\ CASE out = "ok" ->
                  /\ ReturnFiles(c, Result("nil", FALSE), Served(c))
                  /\ nreq' = [nreq EXCEPT ![c] = @ + 1]
                  /\ UNCHANGED <<timer, sleeps>>
            [] out = "empty" ->
                  /\ Return(c, Result("not found", FALSE))
                  /\ nreq' = [nreq EXCEPT ![c] = @ + 1]
                  /\ UNCHANGED <<timer, sleeps>>
            [] out = "body" ->
                  /\ Return(c, Result("other", TRUE))
                  /\ nreq' = [nreq EXCEPT ![c] = @ + 1]
                  /\ UNCHANGED <<timer, sleeps>>
            [] out = "more" ->
                  /\ page' = [page EXCEPT ![c] = @ + 1]
                  /\ attempt' = [attempt EXCEPT ![c] = 0]
                  /\ sleeps' = [sleeps EXCEPT ![c] = << >>]
                  /\ nreq' = [nreq EXCEPT ![c] = 0]
                  /\ cpc' = [cpc EXCEPT ![c] = "lock"]
                  /\ allFiles' = [allFiles EXCEPT
                                     ![c] = AppendFiles(@, PageFiles(page[c]))]
                  /\ UNCHANGED <<timer, result, returned>>
            [] RateLimited(out) /\ attempt[c] < MaxRetries(op[c]) ->
                  /\ timer' = [timer EXCEPT ![c] = Remaining(Backoff(attempt[c]))]
                  /\ sleeps' = [sleeps EXCEPT ![c] = Append(@, Backoff(attempt[c]))]
                  /\ cpc' = [cpc EXCEPT ![c] = "backoff"]
                  /\ nreq' = [nreq EXCEPT ![c] = @ + 1]
                  /\ UNCHANGED <<attempt, page, result, allFiles, returned>>
            [] OTHER ->
                  /\ Return(c, Failure(op[c], out))
                  /\ nreq' = [nreq EXCEPT ![c] = @ + 1]
                  /\ UNCHANGED <<timer, sleeps>>
    /\ UNCHANGED <<sinceLast, holder, op, lastGap>>
    /\ UNCHANGED <<syncVars, serviceVars>>

\* The backoff sleep is over: continue, with attempt++.
Retry(c) ==
    /\ cpc[c] = "backoff"
    /\ timer[c] = 0
    /\ attempt' = [attempt EXCEPT ![c] = @ + 1]
    /\ cpc' = [cpc EXCEPT ![c] = "lock"]
    /\ UNCHANGED <<sinceLast, holder, op, page, timer, result, sleeps, nreq, resp,
                   allFiles, returned, granted, lastGap>>
    /\ UNCHANGED <<syncVars, serviceVars>>

\* The sleeps in progress.
Sleeping == {c \in Callers : timer[c] > 0}

\* One second passes.  A sleep with more than TimerCap seconds left stays at
\* TimerCap until, at some second, it has TimerCap - 1 left.
Elapse ==
    /\ sinceLast < MinDelay \/ Sleeping # {}
    /\ sinceLast' = IF sinceLast < MinDelay THEN sinceLast + 1 ELSE MinDelay
    /\ \E long \in SUBSET {c \in Callers : timer[c] = TimerCap} :
          timer' = [c \in Callers |->
                       IF c \in long \/ timer[c] = 0 THEN timer[c] ELSE timer[c] - 1]
    /\ UNCHANGED <<holder, cpc, op, attempt, page, result, sleeps, nreq, resp,
                   allFiles, returned, granted, lastGap>>
    /\ UNCHANGED <<syncVars, serviceVars>>

(***************************************************************************)
(* Metadata resolution and reverse geocoding.                              *)
(***************************************************************************)
\* Coordinates are <<latitude, longitude>> in units of 0.00001 degree; the
\* empty Coordinates of a record, and a nil *Coordinates, are << >>.
Nil == << >>

Coordinates(lat, lng) == <<lat, lng>>

\* Latitudes around 51.5074 and one longitude.
Lats == {5150734, 5150735, 5150739, 5150745}
Lng == 12780

\* The values v for which the float64 nearest to v / 100000 is above it:
\* 51.50735 is stored as 51.507350000000002..., 51.50745 as
\* 51.507449999999998...
StoredAbove == {5150735}

\* fmt.Sprintf("%.4f", x) for x = v / 100000, in units of 0.0001: the
\* decimal nearest to the stored float64.
Round4(v) ==
    IF v % 10 > 5 \/ (v % 10 = 5 /\ v \in StoredAbove)
    THEN (v \div 10) + 1
    ELSE v \div 10

\* normalizeCoordinates: the cache key fmt.Sprintf("%.4f,%.4f", lat, lng).
Key(coordinates) == <<Round4(coordinates[1]), Round4(coordinates[2])>>

\* NewGeocodingService: an empty cache.
NewGeocodingService == [k \in {} |-> ""]

\* g.cache[key], "" when the key is absent.
Cached(c, key) == IF key \in DOMAIN c THEN c[key] ELSE ""

\* What the outside answers to one reverse geocoding: "cancelled" when the
\* context ends in rateLimiter.Wait, "error" when the request fails, else
\* the place the provider names, which may be empty.
Replies == {"cancelled", "error", "", "London, United Kingdom"}

\* GeocodingService.ReverseGeocode on a service whose cache is c: the
\* location and error returned, the cache afterwards, and whether the
\* upstream request was made.
ReverseGeocode(c, coordinates, reply) ==
    LET key == Key(coordinates) IN
    IF Cached(c, key) # ""
    THEN [location |-> Cached(c, key), err |-> "nil", cache |-> c, upstream |-> FALSE]
    ELSE IF reply = "cancelled"
    THEN [location |-> "", err |-> "wait", cache |-> c, upstream |-> FALSE]
    ELSE IF reply = "error"
    THEN [location |-> "", err |-> "fetch", cache |-> c, upstream |-> TRUE]
    ELSE [location |-> reply, err |-> "nil",
          cache |-> [k \in DOMAIN c \cup {key} |-> IF k = key THEN reply ELSE c[k]],
          upstream |-> TRUE]

\* An entry of geoLog: one call of ReverseGeocode by the sync pipeline.
Geocoding(coordinates, g) ==
    [coordinates |-> coordinates, key |-> Key(coordinates),
     upstream |-> g.upstream, location |-> g.location, err |-> g.err]

\* DriveService.resolveAndPersist for the next new image, whose bytes hold
\* coordinates and a timestamp: ExtractAndPersistMetadata extracts them,
\* ExtractMetadataFromBytes geocodes them with a GeocodingService it
\* constructs for the call, and the record is created.  The geocoder of the
\* DriveService is handed over and not used.
ResolveAndPersist ==
    /\ Len(geoLog) < MaxRequests
    /\ \E lat \in Lats, reply \in Replies, created \in BOOLEAN :
          LET fileName == <<Len(geoLog) + 1, ".jpg">>
              coordinates == Coordinates(lat, Lng)
              g == ReverseGeocode(NewGeocodingService, coordinates, reply)
              extracted == ExtractMetadataFromBytes(
                               fileName, [coords |-> TRUE, ts |-> "ok"],
                               g.err = "nil" /\ g.location # "")
          IN /\ geoLog' = Append(geoLog, Geocoding(coordinates, g))
             /\ store' = IF created
                         THEN store \cup {MergeMetadata(NotFound, extracted)}
                         ELSE store
    /\ UNCHANGED <<geoCache, resolution>>
    /\ UNCHANGED <<now, remote, pc, ctxVars, objects, runVars, loopVars,
                   watchVars, sleepVars, frameVars, resultVars, histVars>>
    /\ UNCHANGED <<clientVars, toolVars, cacheVars, utilVars>>

(***************************************************************************)
(* MetadataResolver (unnamed/part_013) with the utilities it was written   *)
(* against (unnamed/part_015).  Its records carry values: coordinates, a   *)
(* place name and a formatted date, each empty or not.                     *)
(***************************************************************************)
ImageMetadata(coordinates, geoLocation, formattedDate) ==
    [coordinates |-> coordinates, geoLocation |-> geoLocation,
     formattedDate |-> formattedDate]

\* Timestamps as EXIF extraction and the provider's metadata give them, and
\* the dates FormatTimestamp makes of them.
ExifTime == "2024-05-01T10:00:00Z"
DriveTime == "2024:05:02 11:00:00"
ExifDate == "Wednesday, 1 May 2024, 10:00"
DriveDate == "Thursday, 2 May 2024, 11:00"
RecordedDate == "Monday, 1 January 2024, 09:00"

ExifCoordinates == Coordinates(5150735, Lng)
DriveCoordinates == Coordinates(4885660, 235220)
RecordedCoordinates == Coordinates(5150739, Lng)

\* The records a resolution is asked for.
Metadatas ==
    {ImageMetadata(c, g, d) : c \in {Nil, RecordedCoordinates},
                              g \in {"", "Paris, France"},
                              d \in {"", RecordedDate}}

\* The bytes of the object store: what their EXIF block holds.
Bytes(gps, time) == [gps |-> gps, time |-> time]

StoredBytes ==
    {Bytes(ExifCoordinates, ExifTime), Bytes(ExifCoordinates, ""), Bytes(Nil, ""),
     Bytes(Nil, ExifTime)}

\* The provider's descriptors of a file: its imageMediaMetadata, the
\* location in it and its time.
DriveFile(meta, location, time) == [meta |-> meta, location |-> location, time |-> time]

DriveFiles ==
    {DriveFile(FALSE, Nil, ""), DriveFile(TRUE, Nil, DriveTime),
     DriveFile(TRUE, Coordinates(0, 0), DriveTime),
     DriveFile(TRUE, DriveCoordinates, DriveTime),
     DriveFile(TRUE, DriveCoordinates, "")}

Extracted(coords, timestamp, err) == [coords |-> coords, timestamp |-> timestamp, err |-> err]

\* utils.ExtractData: coordinates and timestamp, or an error when the bytes
\* lack either.
ExtractData(data) ==
    IF data.gps = Nil \/ data.time = ""
    THEN Extracted(Nil, "", TRUE)
    ELSE Extracted(data.gps, data.time, FALSE)

\* MetadataResolver.extractDataFromDriveMetadata
extractDataFromDriveMetadata(driveFile) ==
    IF ~driveFile.meta THEN Extracted(Nil, "", TRUE)
    ELSE IF driveFile.location = Nil THEN Extracted(Nil, "", TRUE)
    ELSE IF driveFile.location = Coordinates(0, 0) THEN Extracted(Nil, "", TRUE)
    ELSE Extracted(driveFile.location, driveFile.time, FALSE)

\* A test that takes every record for one with empty fields.
AlwaysEmptyFields(metadata, ignoreGeoLoc) == TRUE

\* utils.HasEmptyFields(metadata, ignoreGeoLoc) as the resolver calls it.
ResolverHasEmptyFields(metadata, ignoreGeoLoc) ==
    \/ (metadata.geoLocation = "" /\ ~ignoreGeoLoc)
    \/ metadata.coordinates = Nil
    \/ metadata.formattedDate = ""

\* utils.FormatTimestamp: parses RFC 3339, the EXIF layout or ISO 8601
\* without zone, and fails on anything else, a formatted date included.
FormatTimestamp(timestamp) ==
    CASE timestamp = ExifTime  -> [formatted |-> ExifDate, err |-> FALSE]
      [] timestamp = DriveTime -> [formatted |-> DriveDate, err |-> FALSE]
      [] OTHER                 -> [formatted |-> "", err |-> TRUE]

\* What the outside gives one resolution: whether FetchFile works and the
\* bytes stored, whether the resolver has a Drive client and a folder,
\* whether Find works and the file it finds, and the geocoder's answer.
Environments ==
    [fetchOk : BOOLEAN, data : StoredBytes, drive : BOOLEAN, findOk : BOOLEAN,
     file : DriveFiles, reply : Replies]

\* A resolver that asks the provider whatever it already has.
UseDriveAlways(gps, timestamp, drive) == drive

\* (gps == nil || timestamp == "") && r.drive != nil && r.folderID != ""
UseDrive(gps, timestamp, drive) == (gps = Nil \/ timestamp = "") /\ drive

\* MetadataResolver.resolveMetadata on a resolver whose geocoder has the
\* cache c: the record returned, the cache afterwards, and which of
\* FetchFile and Find were called and which of them gave the coordinates.
resolveMetadata(metadata, skipStorage, e, c) ==
    LET known == ~ResolverHasEmptyFields(metadata, TRUE)
        gps0 == IF known THEN metadata.coordinates ELSE Nil
        ts0 == IF known THEN metadata.formattedDate ELSE ""
        fetched == ~skipStorage /\ gps0 = Nil
        ex == ExtractData(e.data)
        read == fetched /\ e.fetchOk /\ ~ex.err
        gps1 == IF read THEN ex.coords ELSE gps0
        ts1 == IF read THEN ex.timestamp ELSE ts0
        found == UseDrive(gps1, ts1, e.drive)
        dm == extractDataFromDriveMetadata(e.file)
        got == found /\ e.findOk /\ ~dm.err
        gps == IF got /\ gps1 = Nil THEN dm.coords ELSE gps1
        timestamp == IF got /\ ts1 = "" THEN dm.timestamp ELSE ts1
        g == IF gps # Nil
             THEN ReverseGeocode(c, gps, e.reply)
             ELSE [location |-> "", err |-> "nil", cache |-> c, upstream |-> FALSE]
        f == FormatTimestamp(timestamp)
    IN [metadata |->
            ImageMetadata(
                IF gps # Nil THEN gps ELSE metadata.coordinates,
                IF gps # Nil /\ g.err = "nil" /\ g.location # ""
                THEN g.location ELSE metadata.geoLocation,
                IF timestamp # "" /\ ~f.err
                THEN f.formatted ELSE metadata.formattedDate),
        err |-> "nil",
        cache |-> g.cache,
        fetched |-> fetched,
        found |-> found,
        source |-> IF gps = Nil THEN "none"
                   ELSE IF got /\ gps1 = Nil THEN "drive"
                   ELSE IF read THEN "storage"
                   ELSE "record"]

NoResolution == [called |-> FALSE]

\* The instants of a call, later than the UpdatedAt the records come with.
CallTimes == {1, 2}

\* A resolver that stamps the record only when a source gave coordinates.
UpdatedAtIfResolved(r, at) == IF r.source # "none" THEN at ELSE 0

\* metadata.UpdatedAt = time.Now()
UpdatedAt(r, at) == at

\* A caller asks for a record's resolution: ResolveMetadata (storage first)
\* or ResolveMetadataWithBackfill (skipStorage).
ResolveMetadata ==
    /\ ~resolution.called
    /\ \E metadata \in Metadatas, skipStorage \in BOOLEAN, e \in Environments,
          at \in CallTimes :
          LET r == resolveMetadata(metadata, skipStorage, e, geoCache)
          IN /\ resolution' = [called |-> TRUE, metadata |-> metadata,
                               skipStorage |-> skipStorage, env |-> e,
                               resolved |-> r.metadata, fetched |-> r.fetched,
                               found |-> r.found, source |-> r.source,
                               at |-> at, updatedAt |-> UpdatedAt(r, at),
                               err |-> r.err]
             /\ geoCache' = r.cache
    /\ UNCHANGED geoLog
    /\ UNCHANGED <<syncVars, clientVars, toolVars, cacheVars, utilVars>>

\* The caller goes on with the record it got.
ResolveReturn ==
    /\ resolution.called
    /\ resolution' = NoResolution
    /\ UNCHANGED <<geoCache, geoLog>>
    /\ UNCHANGED <<syncVars, clientVars, toolVars, cacheVars, utilVars>>

PipelineInit ==
    /\ geoCache = NewGeocodingService
    /\ geoLog = << >>
    /\ resolution = NoResolution

(***************************************************************************)
(* CacheService (services/cache.go): a map of entries with an absolute     *)
(* expiry, a Get that checks it, a Set, and the sweep of cleanupExpired.   *)
(* Time is counted in units of which the TTL is a multiple.                *)
(***************************************************************************)
CacheKeys == {"", "a", "b"}

\* data []byte: empty, or some bytes.
Payloads == {"", "x", "y"}

\* models.CacheEntry: the payload and Expires.
CacheEntry(data, expires) == [data |-> data, expires |-> expires]

NoEntry == CacheEntry("", 0)

\* Get's results: (entry, true) and (nil, false).
Hit(entry) == [entry |-> entry, ok |-> TRUE]
Miss == [entry |-> NoEntry, ok |-> FALSE]

\* A call of the cache: Get(key) or Set(key, data, ...) at time `at`, and
\* what a Get returned.
CacheCall(o, key, data, at, ret) ==
    [op |-> o, key |-> key, data |-> data, at |-> at, ret |-> ret]

NoCall == CacheCall("", "", "", 0, Miss)

NoSet == [data |-> "", at |-> -1]

\* NewCacheService: an empty map.
CacheInit ==
    /\ cache = [k \in {} |-> NoEntry]
    /\ clock = 0
    /\ lastCall = NoCall
    /\ lastSet = [k \in CacheKeys |-> NoSet]

\* entry.Expires.Before(time.Now())
Before(t, u) == t < u

\* A Get that leaves the expiry to the sweep.
GetUnexpired(c, key, t) ==
    IF key \notin DOMAIN c THEN Miss ELSE Hit(c[key])

\* CacheService.Get
Get(c, key, t) ==
    IF key \notin DOMAIN c THEN Miss
    ELSE IF Before(c[key].expires, t) THEN Miss
    ELSE Hit(c[key])

\* cs.cache[key] = &models.CacheEntry{..., Expires: time.Now().Add(cs.ttl)}
Put(c, key, data, t) ==
    [k \in DOMAIN c \cup {key} |->
        IF k = key THEN CacheEntry(data, t + TTL) ELSE c[k]]

\* A Set that stores whatever it is given.
SetUnchecked(c, key, data, t) == Put(c, key, data, t)

\* CacheService.Set
Set(c, key, data, t) ==
    IF key = "" \/ data = "" THEN c ELSE Put(c, key, data, t)

\* cleanupExpired, one tick of its ticker: delete the entries that expired.
Swept(c, t) ==
    [k \in {j \in DOMAIN c : ~Before(c[j].expires, t)} |-> c[k]]

\* A caller sets an entry.
CacheSet ==
    /\ \E key \in CacheKeys, data \in Payloads :
          /\ cache' = Set(cache, key, data, clock)
          /\ lastCall' = CacheCall("Set", key, data, clock, Miss)
          /\ lastSet' = IF key # "" /\ data # ""
                        THEN [lastSet EXCEPT ![key] = [data |-> data, at |-> clock]]
                        ELSE lastSet
    /\ UNCHANGED clock
    /\ UNCHANGED <<syncVars, clientVars, toolVars, pipelineVars, utilVars>>

\* A caller gets an entry.
CacheGet ==
    /\ \E key \in CacheKeys :
          lastCall' = CacheCall("Get", key, "", clock, Get(cache, key, clock))
    /\ UNCHANGED <<cache, clock, lastSet>>
    /\ UNCHANGED <<syncVars, clientVars, toolVars, pipelineVars, utilVars>>

\* The cleanup goroutine's ticker fires.
CleanupExpired ==
    /\ cache' = Swept(cache, clock)
    /\ cache' # cache
    /\ UNCHANGED <<clock, lastCall, lastSet>>
    /\ UNCHANGED <<syncVars, clientVars, toolVars, pipelineVars, utilVars>>

\* Time passes.
CacheTick ==
    /\ clock < MaxClock
    /\ clock' = clock + 1
    /\ UNCHANGED <<cache, lastCall, lastSet>>
    /\ UNCHANGED <<syncVars, clientVars, toolVars, pipelineVars, utilVars>>

(***************************************************************************)
(* DriveClient: the query strings of Find and ListFilesInFolder.           *)
(* A string is the sequence of its characters; the fixed text between two  *)
(* literals of a query is one character of it.                             *)
(***************************************************************************)
Quote == "'"

Backslash == "\\"

Alphabet == {"a", Quote, Backslash}

\* The strings of at most n characters.
Strings(n) == UNION {[1..k -> Alphabet] : k \in 0..n}

\* strings.ReplaceAll(s, "'", "\\'")
RECURSIVE EscapeQuotes(_)
EscapeQuotes(s) ==
    IF s = << >> THEN << >>
    ELSE (IF Head(s) = Quote THEN <<Backslash, Quote>> ELSE <<Head(s)>>)
         \o EscapeQuotes(Tail(s))

\* fmt.Sprintf("'%s' in parents and name='%s' and trashed=false", ...)
FindQueryString(folderID, name) ==
    <<Quote>> \o EscapeQuotes(folderID) \o <<Quote, " in parents and name=", Quote>>
    \o EscapeQuotes(name) \o <<Quote, " and trashed=false">>

\* fmt.Sprintf("'%s' in parents and trashed=false", escapedFolderID)
ListQueryString(folderID) ==
    <<Quote>> \o EscapeQuotes(folderID) \o <<Quote, " in parents and trashed=false">>

\* The terms the service reads in a query: a quoted literal with the string
\* it stands for, or text outside a literal.
Literal(s) == [kind |-> "literal", text |-> s]

Syntax(s) == [kind |-> "syntax", text |-> s]

Unterminated(s) == [kind |-> "unterminated", text |-> s]

\* The reading of a query from its i-th character on, in the syntax of the
\* search queries of the Drive API: a quote opens a literal, within it a
\* backslash stands with the character after it for that character (\' and
\* \\), and a quote that no backslash escapes closes it.
RECURSIVE Read(_, _, _, _, _)
Read(q, i, open, cur, out) ==
    IF i > Len(q)
    THEN IF open THEN Append(out, Unterminated(cur)) ELSE out
    ELSE IF ~open
    THEN IF q[i] = Quote
         THEN Read(q, i + 1, TRUE, << >>, out)
         ELSE Read(q, i + 1, FALSE, << >>, Append(out, Syntax(<<q[i]>>)))
    ELSE IF q[i] = Backslash /\ i < Len(q)
    THEN Read(q, i + 2, TRUE, Append(cur, q[i + 1]), out)
    ELSE IF q[i] = Quote
    THEN Read(q, i + 1, FALSE, << >>, Append(out, Literal(cur)))
    ELSE Read(q, i + 1, TRUE, Append(cur, q[i]), out)

Terms(q) == Read(q, 1, FALSE, << >>, << >>)

NoQuery == [op |-> "none", folderID |-> << >>, name |-> << >>, q |-> << >>]

NoExtraction == [called |-> FALSE]

\* Times are in half seconds.
Seconds(n) == 2 * n

\* No instant: before the first request.
Never == -1

\* The sync goroutine at time 0: NewDriveClient has just set lastCallTime,
\* no file is in hand and no geocoding request was made.
NoGeocoding ==
    [time |-> 0, lastCallTime |-> 0 - Seconds(InitialElapsed), caller |-> "none",
     returned |-> 0, lastRequest |-> Never, gap |-> Never]

NoFormat == [called |-> FALSE]

(***************************************************************************)
(* Concurrent calls of ReverseGeocode on one GeocodingService              *)
(* (services/geocoding.go).  The sections under cacheMutex hold no         *)
(* blocking call, so each is one step.                                     *)
(***************************************************************************)
\* The goroutines that call ReverseGeocode.
MaxGoroutines == 3

Goroutines == 1..MaxGoroutines

\* The places the provider can name for a position: extractLocation gives the
\* empty string when the response has neither a city nor a country.
Places == {"", "London, United Kingdom", "Westminster, United Kingdom"}

\* A caller outside ReverseGeocode.
Idle == [pc |-> "idle", key |-> Nil, result |-> "", location |-> "", err |-> "nil"]

\* One service with an empty cache, no caller in it, nothing stored yet.
NoRace == [cache |-> NewGeocodingService, callers |-> [c \in Goroutines |-> Idle],
           stored |-> << >>]

\* The invocations that arrive.
MaxInvocations == 3

Invocations == 1..MaxInvocations

\* The process before its first invocation: handler and initErr are nil,
\* the Once was not used, no background sync runs.
NoBoot ==
    [once |-> "new", handler |-> "nil", initErr |-> "nil", bodies |-> 0, loops |-> 0,
     drive |-> FALSE, at |-> [r \in Invocations |-> "none"]]

UtilInit ==
    /\ query = NoQuery
    /\ extraction = NoExtraction
    /\ geocoding = NoGeocoding
    /\ formatted = NoFormat
    /\ race = NoRace
    /\ boot = NoBoot

\* Find builds its query for a folder id and a name.
FindQuery ==
    /\ \E folderID \in Strings(MaxIdLen), name \in Strings(MaxNameLen) :
          query' = [op |-> "Find", folderID |-> folderID, name |-> name,
                    q |-> FindQueryString(folderID, name)]
    /\ UNCHANGED <<extraction, geocoding, formatted, concVars>>
    /\ UNCHANGED <<syncVars, clientVars, toolVars, pipelineVars, cacheVars>>

\* ListFilesInFolder builds its query for a folder id.
ListQuery ==
    /\ \E folderID \in Strings(MaxIdLen) :
          query' = [op |-> "ListFilesInFolder", folderID |-> folderID, name |-> << >>,
                    q |-> ListQueryString(folderID)]
    /\ UNCHANGED <<extraction, geocoding, formatted, concVars>>
    /\ UNCHANGED <<syncVars, clientVars, toolVars, pipelineVars, cacheVars>>

(***************************************************************************)
(* The sync pipeline's extraction, with the coordinates it handles         *)
(* (services/metadata.go).                                                 *)
(***************************************************************************)
\* The GPS position 0, 0: what a camera without a fix writes.
ZeroPair == Coordinates(0, 0)

\* The positions ExtractData and ExtractMP4Data can return: fmt.Sprintf of
\* the latitude and the longitude the bytes hold.
Positions == {ZeroPair, ExifCoordinates}

\* coords.Lat != "" && coords.Lng != ""
HasCoordinates(coords) == coords # Nil

\* The records a sync can find for the file, each with the coordinates it
\* holds.
Existings ==
    {[res |-> NotFound, coordinates |-> Nil]}
    \cup {[res |-> [found |-> TRUE,
                    doc |-> [fileName |-> <<1, ".jpg">>, storagePath |-> <<1, ".jpg">>,
                             coords |-> c, geo |-> g, date |-> d, taken |-> TRUE]],
           coordinates |-> IF c THEN RecordedCoordinates ELSE Nil] :
             c \in BOOLEAN, g \in BOOLEAN, d \in BOOLEAN}

\* ExtractAndPersistMetadata for the bytes of a file: ExtractMetadataFromBytes
\* takes the coordinates the bytes hold, geocodes them with a GeocodingService
\* of its own when both are non-empty, and the record is merged and written.
ExtractAndPersist ==
    /\ \E contentType \in {"image/jpeg", "video/mp4"}, gps \in Positions,
          reply \in Replies, existing \in Existings :
          \E ex \in ExtractOutcomes(contentType) :
             LET coords == IF ex.coords THEN gps ELSE Nil
                 present == HasCoordinates(coords)
                 g == IF present
                      THEN ReverseGeocode(NewGeocodingService, coords, reply)
                      ELSE [location |-> "", err |-> "nil", upstream |-> FALSE]
                 extracted == ExtractMetadataFromBytes(
                                  <<1, ".jpg">>, [ex EXCEPT !.coords = present],
                                  present /\ g.err = "nil" /\ g.location # "")
             IN  /\ ex.coords \/ gps = ZeroPair
                 /\ present \/ reply = ""
                 /\ extraction' =
                       [called |-> TRUE,
                        contentType |-> contentType,
                        coords |-> coords,
                        existing |-> existing,
                        requested |-> present /\ g.upstream,
                        coordinates |-> IF extracted.coords THEN coords
                                        ELSE existing.coordinates,
                        metadata |-> MergeMetadata(existing.res, extracted)]
    /\ UNCHANGED <<query, geocoding, formatted, concVars>>
    /\ UNCHANGED <<syncVars, clientVars, toolVars, pipelineVars, cacheVars>>

(***************************************************************************)
(* The timing of the sync's geocoding requests (services/geocoding.go,     *)
(* services/metadata.go).                                                  *)
(***************************************************************************)
\* rate.NewLimiter(rate.Limit(1), 1): a full bucket of one token; a limiter
\* is the instant its token was last taken.
NewLimiter == Never

\* rateLimiter.Wait(ctx) called at time t returns at this time: with the
\* token when the bucket is full, a second after the last one otherwise.
WaitUntil(limiter, t) ==
    IF limiter = Never \/ t - limiter >= Seconds(1) THEN t ELSE limiter + Seconds(1)

\* Half a second passes.
GeoElapse ==
    /\ geocoding.time < MaxTicks
    /\ geocoding' = [geocoding EXCEPT !.time = @ + 1]
    /\ UNCHANGED <<query, extraction, formatted, concVars>>
    /\ UNCHANGED <<syncVars, clientVars, toolVars, pipelineVars, cacheVars>>

\* SyncFile for the next file, up to the end of DownloadBytes: the backfill
\* has slept its two seconds since the file before, and waitForRateLimit
\* has slept what was missing to minDelay since the last request.
SyncDownload ==
    /\ geocoding.caller = "none"
    /\ \E caller \in {"backfill", "watch"} :
          /\ caller = "backfill"
             => geocoding.time - geocoding.returned >= Seconds(InterFileDelaySeconds)
          /\ geocoding' = [geocoding EXCEPT !.caller = caller,
                                             !.lastCallTime = geocoding.time]
    /\ geocoding.time - geocoding.lastCallTime >= Seconds(MinDelay)
    /\ UNCHANGED <<query, extraction, formatted, concVars>>
    /\ UNCHANGED <<syncVars, clientVars, toolVars, pipelineVars, cacheVars>>

\* ExtractMetadataFromBytes for bytes that hold coordinates: geocoder :=
\* NewGeocodingService(), whose cache is empty and whose limiter is new, then
\* the upstream request when rateLimiter.Wait lets it through, and SyncFile
\* returns.
SyncGeocode ==
    /\ geocoding.caller # "none"
    /\ geocoding.time = WaitUntil(NewLimiter, geocoding.time)
    /\ geocoding' = [geocoding EXCEPT
                        !.caller = "none",
                        !.returned = geocoding.time,
                        !.lastRequest = geocoding.time,
                        !.gap = IF geocoding.lastRequest = Never THEN Never
                                ELSE geocoding.time - geocoding.lastRequest]
    /\ UNCHANGED <<query, extraction, formatted, concVars>>
    /\ UNCHANGED <<syncVars, clientVars, toolVars, pipelineVars, cacheVars>>

\* SyncFile returns for a file without coordinates: no geocoding.
SyncNoGeocode ==
    /\ geocoding.caller # "none"
    /\ geocoding' = [geocoding EXCEPT !.caller = "none", !.returned = geocoding.time]
    /\ UNCHANGED <<query, extraction, formatted, concVars>>
    /\ UNCHANGED <<syncVars, clientVars, toolVars, pipelineVars, cacheVars>>

(***************************************************************************)
(* utils.FormatTimestamp.  A timestamp string is taken by its shape: the   *)
(* separator of its date, the separator between date and time, its zone    *)
(* suffix, and the fields that can be out of range; any other string is a  *)
(* text.  The date is the 15th of a month of 2025, at half past an hour.   *)
(***************************************************************************)
Stamp(dsep, tsep, zone, month, hour) ==
    [shape |-> "stamp", dsep |-> dsep, tsep |-> tsep, zone |-> zone,
     month |-> month, hour |-> hour]

Text(s) ==
    [shape |-> s, dsep |-> "", tsep |-> "", zone |-> "", month |-> 0, hour |-> 0]

\* The inputs: timestamps in every mix of separators and zones, with months
\* and hours in and out of range, the empty string and a text.
Timestamps ==
    {Stamp(d, t, z, m, h) : d \in {"-", ":", "/"}, t \in {"T", " "},
                            z \in {"", "Z", "+01:00"}, m \in {1, 12, 13},
                            h \in {9, 24}}
    \cup {Text(""), Text("not a timestamp")}

\* A layout of package time: its separators and whether it ends in Z07:00.
Layout(dsep, tsep, zoned) == [dsep |-> dsep, tsep |-> tsep, zoned |-> zoned]

\* time.RFC3339, the EXIF layout, ISO 8601 without zone, and the layout of
\* MP4 with a space.
RFC3339 == Layout("-", "T", TRUE)
ExifLayout == Layout(":", " ", FALSE)
IsoLayout == Layout("-", "T", FALSE)
SpaceLayout == Layout("-", " ", FALSE)

\* The formats of ParseTimeString.
ParseTimeStringFormats == <<RFC3339, ExifLayout, IsoLayout, SpaceLayout>>

\* formats := []string{time.RFC3339, "2006:01:02 15:04:05", "2006-01-02T15:04:05"}
TimestampFormats == <<RFC3339, ExifLayout, IsoLayout>>

\* time.Parse(layout, value): the value has the layout's separators, a zone
\* exactly when the layout has one, and fields in range.
TimeParse(layout, value) ==
    IF /\ value.shape = "stamp"
       /\ value.dsep = layout.dsep
       /\ value.tsep = layout.tsep
       /\ (value.zone # "") = layout.zoned
       /\ value.month \in 1..12
       /\ value.hour \in 0..23
    THEN [t |-> [month |-> value.month, hour |-> value.hour], err |-> FALSE]
    ELSE [t |-> [month |-> 0, hour |-> 0], err |-> TRUE]

\* for _, format := range formats { t, err = time.Parse(format, timestamp);
\* if err == nil { break } }
RECURSIVE ParseLoop(_, _, _)
ParseLoop(formats, timestamp, last) ==
    IF formats = << >> THEN last
    ELSE LET r == TimeParse(Head(formats), timestamp)
         IN  IF ~r.err THEN r ELSE ParseLoop(Tail(formats), timestamp, r)

\* t.Weekday() of the 15th of the month of 2025, Sunday = 0.
Weekday(month) ==
    LET y == IF month < 3 THEN 2024 ELSE 2025
        shift == <<0, 3, 2, 5, 0, 3, 5, 1, 4, 6, 2, 4>>[month]
    IN  (y + (y \div 4) - (y \div 100) + (y \div 400) + shift + 15) % 7

WeekdayName(d) ==
    <<"Sunday", "Monday", "Tuesday", "Wednesday", "Thursday", "Friday", "Saturday">>[d + 1]

MonthName(m) ==
    <<"January", "February", "March", "April", "May", "June", "July", "August",
      "September", "October", "November", "December">>[m]

\* fmt.Sprintf("%02d", n) for n < 100
TwoDigits(n) == <<n \div 10, n % 10>>

\* utils.FormatTimestamp: "", err when no format parses the timestamp, and
\* "Wednesday, 15 January 2025, 14:30" and nil otherwise.
FormatTimestampOf(timestamp) ==
    LET r == ParseLoop(TimestampFormats, timestamp,
                       [t |-> [month |-> 0, hour |-> 0], err |-> FALSE])
    IN  IF r.err
        THEN [formatted |-> << >>, err |-> TRUE]
        ELSE [formatted |-> <<WeekdayName(Weekday(r.t.month)), 15, MonthName(r.t.month),
                              2025, TwoDigits(r.t.hour), TwoDigits(30)>>,
              err |-> FALSE]

\* A caller formats a timestamp.
FormatTimestampCall ==
    /\ \E timestamp \in Timestamps :
          formatted' = [called |-> TRUE, timestamp |-> timestamp,
                        result |-> FormatTimestampOf(timestamp)]
    /\ UNCHANGED <<query, extraction, geocoding, concVars>>
    /\ UNCHANGED <<syncVars, clientVars, toolVars, pipelineVars, cacheVars>>

\* A caller that returned a location and an error.
GeoReturned(caller, location, err) ==
    [caller EXCEPT !.pc = "done", !.location = location, !.err = err]

\* A service that stores every result it fetched.
NoDoubleCheck(c, key) == ""

\* The second check, under the write lock: cached := g.cache[key].
DoubleCheck(c, key) == Cached(c, key)

\* A caller enters ReverseGeocode: normalizeCoordinates gives the key.
GeoNormalize(c) ==
    /\ race.callers[c].pc = "idle"
    /\ \E lat \in Lats :
          race' = [race EXCEPT !.callers[c].pc = "check",
                               !.callers[c].key = Key(Coordinates(lat, Lng))]
    /\ UNCHANGED <<query, extraction, geocoding, formatted, boot>>
    /\ UNCHANGED <<syncVars, clientVars, toolVars, pipelineVars, cacheVars>>

\* The first check, under the read lock.
GeoReadCheck(c) ==
    /\ race.callers[c].pc = "check"
    /\ LET cached == Cached(race.cache, race.callers[c].key)
       IN  race' = IF cached # ""
                   THEN [race EXCEPT !.callers[c] = GeoReturned(@, cached, "nil")]
                   ELSE [race EXCEPT !.callers[c].pc = "wait"]
    /\ UNCHANGED <<query, extraction, geocoding, formatted, boot>>
    /\ UNCHANGED <<syncVars, clientVars, toolVars, pipelineVars, cacheVars>>

\* rateLimiter.Wait returns, with an error when the context ended.
GeoWait(c) ==
    /\ race.callers[c].pc = "wait"
    /\ \E ok \in BOOLEAN :
          race' = IF ok
                  THEN [race EXCEPT !.callers[c].pc = "fetch"]
                  ELSE [race EXCEPT !.callers[c] = GeoReturned(@, "", "wait")]
    /\ UNCHANGED <<query, extraction, geocoding, formatted, boot>>
    /\ UNCHANGED <<syncVars, clientVars, toolVars, pipelineVars, cacheVars>>

\* fetchLocation returns a place or an error.
GeoFetch(c) ==
    /\ race.callers[c].pc = "fetch"
    /\ \E reply \in Places \cup {"error"} :
          race' = IF reply = "error"
                  THEN [race EXCEPT !.callers[c] = GeoReturned(@, "", "fetch")]
                  ELSE [race EXCEPT !.callers[c].pc = "write",
                                    !.callers[c].result = reply]
    /\ UNCHANGED <<query, extraction, geocoding, formatted, boot>>
    /\ UNCHANGED <<syncVars, clientVars, toolVars, pipelineVars, cacheVars>>

\* The write lock: the cached value is returned if another caller stored
\* one, else the result is stored and returned.
GeoWrite(c) ==
    /\ race.callers[c].pc = "write"
    /\ LET key == race.callers[c].key
           own == race.callers[c].result
           cached == DoubleCheck(race.cache, key)
       IN  race' = IF cached # ""
                   THEN [race EXCEPT !.callers[c] = GeoReturned(@, cached, "nil")]
                   ELSE [race EXCEPT
                            !.callers[c] = GeoReturned(@, own, "nil"),
                            !.cache = [k \in DOMAIN race.cache \cup {key} |->
                                          IF k = key THEN own ELSE race.cache[k]],
                            !.stored = Append(@, [key |-> key, was |-> Cached(race.cache, key),
                                                  result |-> own])]
    /\ UNCHANGED <<query, extraction, geocoding, formatted, boot>>
    /\ UNCHANGED <<syncVars, clientVars, toolVars, pipelineVars, cacheVars>>

(***************************************************************************)
(* The serverless entry point (api/index.go): concurrent invocations of    *)
(* Handler in one process.                                                 *)
(***************************************************************************)
\* An initialisation that tests the Once without waiting for the one that
\* runs.
OnceRunsUnlessDone(once) == once # "done"

\* sync.Once.Do runs f for the first call only; the other calls return when
\* f has returned.
OnceRuns(once) == once = "new"

\* The invocation r is at p.
BootAt(r, p) == [boot EXCEPT !.at[r] = p]

\* Handler is invoked.
Invoke(r) ==
    /\ boot.at[r] = "none"
    /\ boot' = BootAt(r, "do")
    /\ UNCHANGED <<query, extraction, geocoding, formatted, race>>
    /\ UNCHANGED <<syncVars, clientVars, toolVars, pipelineVars, cacheVars>>

\* initHandler: once.Do(f).  The first call runs f, a call made while f runs
\* waits for it, a call made after it returns at once.
OnceDo(r) ==
    /\ boot.at[r] = "do"
    /\ IF OnceRuns(boot.once)
       THEN boot' = [boot EXCEPT !.once = "running", !.bodies = @ + 1, !.at[r] = "load"]
       ELSE /\ boot.once = "done"
            /\ boot' = BootAt(r, "return")
    /\ UNCHANGED <<query, extraction, geocoding, formatted, race>>
    /\ UNCHANGED <<syncVars, clientVars, toolVars, pipelineVars, cacheVars>>

\* f: config.Load; on an error initErr is set and f returns.
LoadConfig(r) ==
    /\ boot.at[r] = "load"
    /\ \E ok \in BOOLEAN :
          boot' = IF ok THEN BootAt(r, "services")
                  ELSE [boot EXCEPT !.initErr = "config", !.once = "done",
                                    !.at[r] = "return"]
    /\ UNCHANGED <<query, extraction, geocoding, formatted, race>>
    /\ UNCHANGED <<syncVars, clientVars, toolVars, pipelineVars, cacheVars>>

\* f: server.InitServices, with or without a DriveService; on an error
\* initErr is set and f returns.
InitServices(r) ==
    /\ boot.at[r] = "services"
    /\ \E ok \in BOOLEAN, drive \in BOOLEAN :
          boot' = IF ok THEN [boot EXCEPT !.drive = drive, !.at[r] = "sync"]
                  ELSE [boot EXCEPT !.initErr = "services", !.once = "done",
                                    !.at[r] = "return"]
    /\ UNCHANGED <<query, extraction, geocoding, formatted, race>>
    /\ UNCHANGED <<syncVars, clientVars, toolVars, pipelineVars, cacheVars>>

\* f: server.CreateHandler, then StartDriveSync if there is a DriveService:
\* its goroutine is one more background sync.
StartSync(r) ==
    /\ boot.at[r] = "sync"
    /\ boot' = [boot EXCEPT !.loops = IF boot.drive THEN @ + 1 ELSE @,
                            !.at[r] = "set"]
    /\ UNCHANGED <<query, extraction, geocoding, formatted, race>>
    /\ UNCHANGED <<syncVars, clientVars, toolVars, pipelineVars, cacheVars>>

\* f: handler = wrappedHandler, and f returns.
SetHandler(r) ==
    /\ boot.at[r] = "set"
    /\ boot' = [boot EXCEPT !.handler = "set", !.once = "done", !.at[r] = "return"]
    /\ UNCHANGED <<query, extraction, geocoding, formatted, race>>
    /\ UNCHANGED <<syncVars, clientVars, toolVars, pipelineVars, cacheVars>>

\* Handler after initHandler returned initErr: a 500 on an error, else
\* handler.ServeHTTP, which panics on a nil handler.
Respond(r) ==
    /\ boot.at[r] = "return"
    /\ boot' = BootAt(r, IF boot.initErr # "nil" THEN "500"
                         ELSE IF boot.handler = "nil" THEN "panic"
                         ELSE "served")
    /\ UNCHANGED <<query, extraction, geocoding, formatted, race>>
    /\ UNCHANGED <<syncVars, clientVars, toolVars, pipelineVars, cacheVars>>

(***************************************************************************)
(* Specifications.                                                         *)
(***************************************************************************)
\* The steps of the sync goroutine.
BackfillStep ==
    \/ BackfillList
    \/ BackfillLoop
    \/ BackfillSync
    \/ BackfillAfterSync
    \/ BackfillCooldownEnd
    \/ BackfillReturn

SyncFileStep ==
    \/ SyncFileFetch
    \/ SyncFileStore

WatchStep ==
    \/ WatchDone
    \/ WatchTick
    \/ WatchList
    \/ WatchLoop
    \/ WatchAfterSync
    \/ WatchReturn

GoroutineStep == BackfillStep \/ SyncFileStep \/ WatchStep

\* The server.
\* The parts of the program a specification leaves at rest.
ServiceInit == ToolInit(DefaultFlags) /\ PipelineInit /\ CacheInit /\ UtilInit

Init == SyncInit(<< >>) /\ ClientInit /\ ServiceInit

Next ==
    \/ CreateFile
    \/ Tick
    \/ Cancel
    \/ StartDriveSync
    \/ GoroutineStep

Spec == Init /\ [][Next]_vars

\* The server when no listing fails and the context is not cancelled, under
\* the scheduling of the Go runtime: time passes, and a goroutine that can
\* take a step takes it.
ListingFails ==
    \/ (pc = "bf_list" /\ pc' = "bf_ret")
    \/ (pc = "w_list" /\ pc' = "w_select")

Sync == GoroutineStep /\ ~ListingFails

NextConverge ==
    \/ CreateFile
    \/ Tick
    \/ StartDriveSync
    \/ Sync

SpecConverge ==
    /\ Init
    /\ [][NextConverge]_vars
    /\ WF_vars(Tick)
    /\ WF_vars(Sync)

\* The tool, over every folder of at most MaxFiles files.
Folders ==
    UNION {{[i \in 1..n |-> [id |-> i, kind |-> k[i], created |-> 0]] :
              k \in [1..n -> Kinds]} : n \in 0..MaxFiles}

InitCli == ClientInit /\ ServiceInit /\ \E folder \in Folders : SyncInit(folder)

NextCli ==
    \/ RunBackfillTool
    \/ Tick
    \/ BackfillStep
    \/ SyncFileStep

SpecCli == InitCli /\ [][NextCli]_vars

\* The callers of one DriveClient.
InitClient == SyncInit(<< >>) /\ ClientInit /\ ServiceInit

NextClient ==
    \/ \E c \in Callers : Call(c)
    \/ \E c \in Callers : Acquire(c)
    \/ \E c \in Callers : Grant(c)
    \/ \E c \in Callers : Request(c)
    \/ \E c \in Callers : Retry(c)
    \/ Elapse

SpecClient == InitClient /\ [][NextClient]_vars

\* The callers under the scheduling of the Go runtime: time passes, a sleep
\* that is over returns, and a goroutine blocked in Lock gets the mutex when
\* it is free again and again (sync.Mutex hands the lock to a waiter that
\* has starved for a millisecond).
SpecClientFair ==
    /\ SpecClient
    /\ WF_vars(Elapse)
    /\ \A c \in Callers : WF_vars(Grant(c)) /\ SF_vars(Acquire(c))

\* The result cache and its callers, as time passes.
InitCache ==
    /\ SyncInit(<< >>)
    /\ ClientInit
    /\ ToolInit(DefaultFlags)
    /\ PipelineInit
    /\ CacheInit
    /\ UtilInit

NextCache ==
    \/ CacheSet
    \/ CacheGet
    \/ CleanupExpired
    \/ CacheTick

SpecCache == InitCache /\ [][NextCache]_vars

\* One run of the tool, with any flags, over a folder of at most
\* MaxToolFiles files of which an earlier sync left some in the stores.  The
\* folder is too short for the cooldown of the backfill, which SpecCli has.
ToolFolders ==
    UNION {{[i \in 1..n |-> [id |-> i, kind |-> k[i], created |-> 0]] :
              k \in [1..n -> Kinds]} : n \in 0..MaxToolFiles}

\* What a sync of the file f leaves: a record and an object, under the name
\* and with the data the conversion gave them.
Synced(f) ==
    LET file == Descriptor(f)
        c == Converted(file, TRUE)
    IN  IF ~(IsImageMime(file.mimeType) \/ IsVideoMime(file.mimeType))
        THEN {}
        ELSE {[doc    |-> MergeMetadata(NotFound,
                              ExtractMetadataFromBytes(c.name, o[1], o[2])),
               object |-> Object(c.name, c.data, c.mime)] :
                o \in {q \in ExtractOutcomes(c.mime) \X BOOLEAN : q[2] => q[1].coords}}

\* The stores an earlier run left over `folder`: for each file, nothing or
\* what its sync leaves.
Earlier(folder) ==
    {p \in SUBSET UNION {Synced(folder[i]) : i \in 1..Len(folder)} :
        \A a, b \in p : a.object.name = b.object.name => a = b}

AllFlags == {Flags(o, d, b, k) : o \in BOOLEAN, d \in BOOLEAN, b \in BOOLEAN, k \in BOOLEAN}

InitTool ==
    /\ ClientInit
    /\ PipelineInit
    /\ CacheInit
    /\ UtilInit
    /\ \E fl \in AllFlags : ToolInit(fl)
    /\ \E folder \in ToolFolders : \E p \in Earlier(folder) :
          SyncInitOver(folder, {r.doc : r \in p}, {r.object : r \in p})

NextTool ==
    \/ Main
    \/ ProcessImage
    \/ ProcessDone
    \/ MainAfterBackfill
    \/ Tick
    \/ BackfillList
    \/ BackfillLoop
    \/ BackfillSync
    \/ BackfillAfterSync
    \/ SyncFileStep

SpecTool == InitTool /\ [][NextTool]_vars

\* The sync pipeline's metadata step, file after file.
InitPipeline ==
    /\ SyncInit(<< >>)
    /\ ClientInit
    /\ ToolInit(DefaultFlags)
    /\ PipelineInit
    /\ CacheInit
    /\ UtilInit

NextPipeline == ResolveAndPersist

SpecPipeline == InitPipeline /\ [][NextPipeline]_vars

\* The callers of one MetadataResolver, one resolution after the other.
InitResolver ==
    /\ SyncInit(<< >>)
    /\ ClientInit
    /\ ToolInit(DefaultFlags)
    /\ PipelineInit
    /\ CacheInit
    /\ UtilInit

NextResolver ==
    \/ ResolveMetadata
    \/ ResolveReturn

SpecResolver == InitResolver /\ [][NextResolver]_vars

(***************************************************************************)
(* The remote client (SpecClient, SpecClientFair).                         *)
(***************************************************************************)
\* C1: for any callers of one client, every remote request comes after a
\* return of waitForRateLimit in the same caller, two successive updates of
\* lastCallTime are at least minDelay apart, and a caller blocked in
\* waitForRateLimit is eventually let through to its request.
C1_PacedAndEventuallyGranted ==
    /\ [](lastGap >= MinDelay)
    /\ [](\A c \in Callers : cpc[c] = "request" => granted[c])
    /\ \A c \in Callers : (cpc[c] = "lock") ~> (cpc[c] = "request")

\* C1's case: a caller sleeps in waitForRateLimit with the lock while the
\* other waits for the lock, after a request was already let through.
C1_Witness ==
    \E c, d \in Callers :
       /\ c # d
       /\ cpc[c] = "pacing"
       /\ holder = c
       /\ timer[c] > 0
       /\ cpc[d] = "lock"
       /\ nreq[d] > 0

\* C2: a DownloadBytes whose requests all fail with a rate-limit error
\* sleeps 5, 10, 20, 40 and 80 seconds between them, makes six requests and
\* no more, and returns the rate-limit error itself.
C2_DownloadBackoffSchedule ==
    \A c \in Callers :
       op[c] = "DownloadBytes"
       => /\ Len(sleeps[c]) <= 5
          /\ \A i \in 1..Len(sleeps[c]) : sleeps[c][i] = <<5, 10, 20, 40, 80>>[i]
          /\ nreq[c] <= 6
          /\ (cpc[c] = "idle" /\ result[c].kind = "quota")
             => ( /\ sleeps[c] = <<5, 10, 20, 40, 80>>
                  /\ nreq[c] = 6
                  /\ ~result[c].wrapped )

\* C2's case: a download returned after five backoff sleeps and a sixth
\* refusal.
C2_Witness ==
    \E c \in Callers :
       /\ op[c] = "DownloadBytes"
       /\ cpc[c] = "idle"
       /\ result[c].kind = "quota"
       /\ Len(sleeps[c]) = 5

(***************************************************************************)
(* The circuit breaker of the backfill (SpecCli).                          *)
(***************************************************************************)
\* C3: in a backfill pass, three consecutive files that fail with rate-limit
\* errors are followed by one cooldown of five minutes, taken right after
\* the third of them and not before; after a cooldown the counter of
\* consecutive failures is zero and the pass goes on with the next file.
C3_CooldownAfterThirdRateLimit ==
    /\ \A k \in 1..(Len(hist) - 2) :
          ( /\ \A j \in k..(k + 2) : IsRateLimit(hist[j].res)
            /\ (k = 1 \/ ~IsRateLimit(hist[k - 1].res) \/ hist[k - 1].cooldown) )
          => ( /\ ~hist[k].cooldown
               /\ ~hist[k + 1].cooldown
               /\ hist[k + 2].cooldown )
    /\ pc = "bf_cooldown" => sleepFor = CooldownSeconds
    /\ ( /\ pc = "bf_loop"
         /\ hist # << >>
         /\ hist[Len(hist)].cooldown )
       => (counts.consecutiveErrors = 0 /\ idx = Len(hist))

\* C4: the cooldown is entered only when the three most recent failures, all
\* consecutive, were rate-limit errors.
C4_CooldownOnlyAfterThreeRateLimits ==
    pc = "bf_cooldown"
    => ( /\ Len(hist) >= CircuitThreshold
         /\ \A j \in (Len(hist) - CircuitThreshold + 1)..Len(hist) :
               IsRateLimit(hist[j].res) )

(***************************************************************************)
(* Idempotence of the backfill (SpecCli).                                  *)
(***************************************************************************)
\* C6: after a pass without skipExisting in which every file succeeded, a
\* second pass over the same folder and the store the first one left calls
\* CreateImageMetadata for no file.
C6_SecondPassCreatesNothing ==
    ( /\ passes = 2
      /\ InBackfill
      /\ prev.clean
      /\ ~lookupFailed )
    => creates = 0

(***************************************************************************)
(* Isolation and selection of files (Spec).                                *)
(***************************************************************************)
\* C5: a backfill pass that returns nil or the aggregate error has called
\* SyncFile once for each listed file, in the listing's order, and so has
\* every pass and every watch tick for the files it has gone through, a tick
\* for the ones it selects: a file's failure does not stop the later ones.
C5_EachFileAttemptedOnceInOrder ==
    /\ (pc = "bf_ret" /\ bfResult \in {"nil", "errors"})
       => attempted = [i \in 1..Len(files) |-> files[i].id]
    /\ pc = "bf_loop" => attempted = [i \in 1..idx |-> files[i].id]
    /\ pc = "w_loop"
       => LET selected == SelectSeq(SubSeq(files, 1, idx),
                                    LAMBDA f : IsNewFile(f, lastCheck))
          IN  attempted = [i \in 1..Len(selected) |-> selected[i].id]

\* C5's case: the first file of a pass failed and the second one succeeded.
C5_Witness ==
    /\ pc = "bf_ret"
    /\ bfResult = "errors"
    /\ Len(hist) >= 2
    /\ hist[1].res # "ok"
    /\ hist[2].res = "ok"

\* C8: in a watch tick SyncFile is called for a listed file if and only if
\* the file's creation time is strictly after lastCheck, the time the watch
\* started or the previous tick ended.
C8_TickSelectsStrictlyNewer ==
    pc = "w_loop"
    => \A i \in 1..idx :
          (\E j \in 1..Len(attempted) : attempted[j] = files[i].id)
          <=> files[i].createdTime > lastCheck

\* C8's case: a tick went through a file created at lastCheck, which it left,
\* and a file created after it, which it passed to SyncFile.
C8_Witness ==
    /\ pc = "w_loop"
    /\ idx = Len(files)
    /\ \E i, k \in 1..idx :
          /\ files[i].createdTime = lastCheck
          /\ files[k].createdTime > lastCheck
          /\ attempted = <<files[k].id>>

\* C7: every media file that appears in the folder after the sync started
\* is eventually passed to SyncFile, by the backfill pass or by a watch tick.
C7_NewFilesAreEventuallySynced ==
    \A i \in 1..MaxNewFiles :
       (Len(remote) >= i /\ remote[i].kind # "txt")
       ~> (\E j \in 1..Len(attempted) : attempted[j] = i)

(***************************************************************************)
(* Cancellation (Spec).                                                    *)
(***************************************************************************)
\* C9: when the context is cancelled during the listing, a sleep or a file,
\* BackfillFromDrive returns context.Canceled itself, and so does
\* WatchForChanges.
C9_CancelledOutcome ==
    /\ (pc = "bf_ret" /\ cancelAt \in {"listing", "sleeping", "file", "last file"})
       => bfResult = "canceled"
    /\ (pc = "w_ret" /\ cancelled) => watchResult = "canceled"

\* C10: a goroutine in the inter-file delay or in the cooldown whose context
\* is cancelled leaves the wait at once, without the rest of it elapsing.
C10_WaitsAreCancellable ==
    (cancelled /\ pc \in {"bf_delay", "bf_cooldown"} /\ sleepLeft > 0)
    => ENABLED GoroutineStep

(***************************************************************************)
(* The per-file state machine (Spec, SpecCli).                             *)
(***************************************************************************)
\* C13: when the transcode of a HEIC file fails, SyncFile goes on to the
\* upload with the original bytes, the file's own name and its own MIME
\* type, and what it uploads is that object; an error of a sync whose
\* conversion failed comes from the upload or from the persistence, never
\* from the conversion.
C13_ConversionFailureKeepsOriginal ==
    /\ []((pc = "sf_store" /\ trace.conv = "failed")
          => /\ sf.finalName = sf.file.name
             /\ sf.finalMime = sf.file.mimeType
             /\ sf.finalData = "raw")
    /\ []((trace.conv = "failed" /\ sfErr # "nil")
          => trace.step \in {"upload", "persist"})
    /\ [][(pc = "sf_fetch" /\ trace'.conv = "failed") => pc' = "sf_store"]_vars
    /\ [][(pc = "sf_store" /\ trace.conv = "failed" /\ objects' # objects)
          => objects' = objects \cup
                {Object(sf.file.name, "raw", sf.file.mimeType)}]_vars

\* C13's case: the sync of a HEIC file whose conversion failed returned nil,
\* and the object store holds the file under its own name and type.
C13_Witness ==
    /\ pc \in {"bf_after", "w_after"}
    /\ trace = Path("persist", "failed")
    /\ sfErr = "nil"
    /\ \E o \in objects :
          o.contentType = "image/heic" /\ Ext(o.name) = ".heic" /\ o.data = "raw"

\* The records the program keeps of a remote file: under the file's name, or
\* under the name its conversion stores it by.
RecordsOf(file) ==
    {d \in store : \/ d.fileName = file.name
                   \/ (IsHeifLike(file.mimeType) /\ d.fileName = WithJpgExt(file.name))}

\* C18: for a media file, and when the store answers the lookup, SyncFile
\* returns nil without a download, an upload or a write exactly when a
\* complete record of the file exists, or skipExisting is on and a record
\* of the file exists; otherwise it goes on to the download.
C18_SkipsExactlyRecordedFiles ==
    [][(/\ pc = "sf_fetch"
        /\ pc' # "sf_fetch"
        /\ IsImageMime(sf.file.mimeType) \/ IsVideoMime(sf.file.mimeType)
        /\ ~lookupFailed')
       => /\ (trace'.step \in SkipSteps)
             <=> \/ \E d \in RecordsOf(sf.file) : ~HasEmptyFields(d)
                 \/ (sf.skipExisting /\ RecordsOf(sf.file) # {})
          /\ (trace'.step \in SkipSteps)
             => (sfErr' = "nil" /\ store' = store /\ objects' = objects)
          /\ (trace'.step \notin SkipSteps) => trace'.step = "download"]_vars

(***************************************************************************)
(* The outcome and the counts of a backfill pass (Spec).                   *)
(***************************************************************************)
\* The files of the pass whose sync returned an error.
Failed(h) == {j \in 1..Len(h) : h[j].res # "ok"}

\* C19: a backfill pass that is not cancelled and whose listing succeeded
\* returns after every listed file was attempted; it returns nil exactly
\* when no file's sync returned an error, and otherwise the aggregate error,
\* whose count is the number of files that failed.
C19_AggregateOutcome ==
    (pc = "bf_ret" /\ ~cancelled /\ bfResult # "list failed")
    => /\ bfResult \in {"nil", "errors"}
       /\ Len(hist) = Len(files)
       /\ bfResult = "nil" <=> Failed(hist) = {}
       /\ bfResult = "errors" => counts.errCount = Cardinality(Failed(hist))

\* C19's case: a pass of three files returns the aggregate error with the
\* count two, its last file having succeeded.
C19_Witness ==
    /\ pc = "bf_ret"
    /\ ~cancelled
    /\ bfResult = "errors"
    /\ Len(files) = 3
    /\ counts.errCount = 2
    /\ hist[3].res = "ok"

\* C20: at the end of a backfill pass that was not cancelled the three
\* counts add up to the number of listed files, skippedCount being the
\* number of files SyncFile skipped and newCount the number of files that
\* were downloaded and persisted.
C20_CountsPartitionTheListing ==
    (pc = "bf_ret" /\ ~cancelled /\ bfResult \in {"nil", "errors"})
    => /\ counts.newCount + counts.skippedCount + counts.errCount = Len(files)
       /\ counts.skippedCount = Cardinality({j \in 1..Len(hist) : hist[j].skipped})
       /\ counts.newCount =
             Cardinality({j \in 1..Len(hist) : hist[j].res = "ok" /\ ~hist[j].skipped})

(***************************************************************************)
(* The result cache (SpecCache).                                           *)
(***************************************************************************)
\* The expiry instant of the entry the last Set of `key` stored.
ExpiryOf(key) == lastSet[key].at + TTL

\* C14: for every key, after Set at time t with TTL T, a Get before t+T
\* returns the entry that Set stored, and a Get at any time after t+T
\* returns a miss, whether or not the sweep has removed the entry.
C14_GetHonoursExpiry ==
    (lastCall.op = "Get" /\ lastSet[lastCall.key].at >= 0) =>
        /\ lastCall.at < ExpiryOf(lastCall.key) =>
              lastCall.ret = Hit(CacheEntry(lastSet[lastCall.key].data,
                                            ExpiryOf(lastCall.key)))
        /\ lastCall.at > ExpiryOf(lastCall.key) => lastCall.ret = Miss

\* C14's case: a Get after the expiry instant of an entry that the sweep has
\* not removed yet.
C14_Witness ==
    /\ lastCall.op = "Get"
    /\ lastSet[lastCall.key].at >= 0
    /\ lastCall.at > ExpiryOf(lastCall.key)
    /\ lastCall.at = clock
    /\ lastCall.key \in DOMAIN cache

C12_OneUpstreamRequestPerKey ==
    \A i, j \in 1..Len(geoLog) :
       (/\ i < j
        /\ geoLog[i].key = geoLog[j].key
        /\ geoLog[i].upstream
        /\ geoLog[i].location # "") => ~geoLog[j].upstream

(***************************************************************************)
(* The metadata resolver (SpecResolver).                                   *)
(***************************************************************************)
\* The case of C11: a record with no coordinates and no date, stored bytes
\* that hold coordinates and a timestamp, and a provider that reports other
\* coordinates for the file.
BytesAndProviderDiffer ==
    /\ resolution.called
    /\ resolution.metadata.coordinates = Nil
    /\ resolution.metadata.formattedDate = ""
    /\ ~ExtractData(resolution.env.data).err
    /\ resolution.env.drive
    /\ resolution.env.findOk
    /\ ~extractDataFromDriveMetadata(resolution.env.file).err
    /\ extractDataFromDriveMetadata(resolution.env.file).coords
           # ExtractData(resolution.env.data).coords

\* C11 as stated: in that case the resolved record carries the coordinates
\* of the bytes, and the provider's lookup does not supply them.
C11_BytesCoordinatesWin ==
    BytesAndProviderDiffer =>
        /\ resolution.resolved.coordinates = ExtractData(resolution.env.data).coords
        /\ resolution.source # "drive"

\* C11, amended: in that case, when the resolution consults the object store
\* (ResolveMetadata) and the fetch of the bytes succeeds, the resolved record
\* carries the coordinates of the bytes and Find is not called at all.
C11_BytesCoordinatesWinWhenFetched ==
    (BytesAndProviderDiffer /\ ~resolution.skipStorage /\ resolution.env.fetchOk) =>
        /\ resolution.resolved.coordinates = ExtractData(resolution.env.data).coords
        /\ resolution.source = "storage"
        /\ resolution.fetched
        /\ ~resolution.found

\* C11's case: the storage-first resolution of such a record, with the bytes
\* fetched.
C11_Witness ==
    /\ BytesAndProviderDiffer
    /\ ~resolution.skipStorage
    /\ resolution.env.fetchOk
    /\ resolution.resolved.coordinates = ExifCoordinates
    /\ resolution.resolved.formattedDate = ExifDate

(***************************************************************************)
(* The one-shot tool (SpecTool).                                           *)
(***************************************************************************)
\* C16: with the dry-run flag set, no step of a run of the tool changes the
\* metadata store or the object store, in backfill mode as in the others.
C16_DryRunWritesNothing ==
    [][flags.dryRun => (store' = store /\ objects' = objects)]_vars

\* The failures that end a run before any file is attempted: configuration,
\* client construction, missing Drive credentials, and a listing that fails.
Aborts ==
    {"load config", "storage client", "firestore client", "drive credentials",
     "list images", "list failed"}

\* C17: a run of the tool ends with a non-zero status only when it was
\* aborted before any file was attempted; a run in which individual files
\* failed, a backfill that returns the aggregate of its errors included,
\* ends with status zero.
C17_NonZeroExitOnlyOnSetupFailure ==
    exit.code > 0 => exit.cause \in Aborts

(***************************************************************************)
(* The DriveClient's errors and listings (SpecClient).                     *)
(***************************************************************************)
\* The step in which caller c gets the outcome of a remote request.
Answered(c) == cpc[c] = "request" /\ cpc'[c] # "request"

\* C22: a request that fails with an error that is no rate-limit error makes
\* its method return that error at once: one request more, no backoff sleep
\* after it, no retry; only a rate-limit response is followed by a backoff
\* sleep and a retry.
C22_OtherErrorsReturnAtOnce ==
    [][\A c \in Callers :
          Answered(c)
          => /\ resp'[c] \in {"other", "body"}
                => ( /\ cpc'[c] = "idle"
                     /\ result'[c].kind = "other"
                     /\ nreq'[c] = nreq[c] + 1
                     /\ nreq'[c] = Len(sleeps'[c]) + 1
                     /\ sleeps'[c] = sleeps[c]
                     /\ timer'[c] = 0 )
             /\ cpc'[c] = "backoff" => resp'[c] = "quota"]_vars

\* C22's case: a call returned the error of its second request, which was no
\* rate-limit error, after the one backoff sleep that followed the refusal of
\* the first.
C22_Witness ==
    \E c \in Callers :
       /\ cpc[c] = "idle"
       /\ resp[c] = "other"
       /\ result[c].kind = "other"
       /\ nreq[c] = 2
       /\ Len(sleeps[c]) = 1

\* The files of the first k pages, in page order.
RECURSIVE FirstPages(_)
FirstPages(k) == IF k = 0 THEN << >> ELSE FirstPages(k - 1) \o PageFiles(k)

\* C21: ListFilesInFolder goes on to the next page while a page names one,
\* returns the files of all pages up to the first page with no next-page
\* token, in page order, and returns an error with no list when a request
\* fails with another error than a rate limit or is refused for quota with
\* the retries used up.
C21_ListingIsConcatenation ==
    [][\A c \in Callers :
          (op[c] = "ListFilesInFolder" /\ Answered(c))
          => /\ resp'[c] = "ok"
                => ( /\ cpc'[c] = "idle"
                     /\ result'[c].kind = "nil"
                     /\ returned'[c] = FirstPages(page[c]) )
             /\ resp'[c] = "more"
                => ( /\ cpc'[c] # "idle"
                     /\ page'[c] = page[c] + 1 )
             /\ ( \/ resp'[c] = "other"
                  \/ resp'[c] = "quota" /\ attempt[c] = MaxRetries(op[c]) )
                => ( /\ cpc'[c] = "idle"
                     /\ result'[c].kind = resp'[c]
                     /\ returned'[c] = << >> )
             /\ cpc'[c] = "idle"
                => (result'[c].kind = "nil" <=> returned'[c] # << >>)]_vars

\* C21's case: one listing returned the files of two pages, and another one
\* returned the error of a failed request.
C21_Witness ==
    \E c, d \in Callers :
       /\ cpc[c] = "idle" /\ cpc[d] = "idle"
       /\ op[c] = "ListFilesInFolder" /\ op[d] = "ListFilesInFolder"
       /\ result[c].kind = "nil" /\ Len(returned[c]) = 3
       /\ result[d].kind = "other" /\ returned[d] = << >>

(***************************************************************************)
(* The query of Find (SpecQuery).                                          *)
(***************************************************************************)
\* The queries of a DriveClient.
InitQuery == SyncInit(<< >>) /\ ClientInit /\ ServiceInit

NextQuery == FindQuery \/ ListQuery

SpecQuery == InitQuery /\ [][NextQuery]_vars

\* C23: whatever the folder id and the name, the query of Find reads as the
\* literal of the folder id, the text between, the literal of the name and
\* the text after it: the whole name is inside one literal, and no character
\* of it ends the literal or is read as syntax of the query.
C23_NameStaysInsideItsLiteral ==
    query.op = "Find"
    => Terms(query.q) = << Literal(query.folderID),
                           Syntax(<<" in parents and name=">>),
                           Literal(query.name),
                           Syntax(<<" and trashed=false">>) >>

(***************************************************************************)
(* The objects behind the records (Spec).                                  *)
(***************************************************************************)
\* The objects of a store that `path` names.
ObjectsAt(objs, path) == {o \in objs : o.name = path}

\* C24: every record that a step creates or updates has a storagePath that
\* names an object of the object store as the step leaves it, the store
\* holds one content under that name, and for a new record it is the bytes
\* SyncFile has just uploaded; a SyncFile that ends at a failed upload
\* leaves the records and the objects as they were.
C24_RecordsNameUploadedObjects ==
    /\ [][\A m \in store' \ store :
             /\ pc = "sf_store"
             /\ Cardinality(ObjectsAt(objects', m.storagePath)) = 1
             /\ ~sf.existing.found
                => ( /\ m.storagePath = sf.finalName
                     /\ ObjectsAt(objects', m.storagePath)
                           = {Object(sf.finalName, sf.finalData, sf.finalMime)} )]_vars
    /\ [][(pc = "sf_store" /\ trace'.step = "upload")
             => (sfErr' # "nil" /\ store' = store /\ objects' = objects)]_vars

\* C24's case: a sync has just written the record of a converted file, and
\* the record names the JPEG object.
C24_Witness ==
    /\ trace.step = "persist"
    /\ sfErr = "nil"
    /\ \E m \in store, o \in objects :
          /\ o.name = m.storagePath
          /\ o.data = "jpeg"

(***************************************************************************)
(* The coordinates of the sync pipeline (SpecExtract).                     *)
(***************************************************************************)
InitExtract == SyncInit(<< >>) /\ ClientInit /\ ServiceInit

NextExtract == ExtractAndPersist

SpecExtract == InitExtract /\ [][NextExtract]_vars

\* C25: the pair 0, 0 counts as no coordinates: the record that is written
\* never holds it, no geocoding request is made for it, and a record counts
\* as complete only with coordinates that are neither empty nor 0, 0.
C25_ZeroPairIsNoCoordinates ==
    extraction.called
    => /\ extraction.coordinates # ZeroPair
       /\ extraction.coords = ZeroPair => ~extraction.requested
       /\ ~HasEmptyFields(extraction.metadata)
          => extraction.coordinates \notin {Nil, ZeroPair}

(***************************************************************************)
(* Files without GPS and the lookup of SyncFile (SpecCli).                 *)
(***************************************************************************)
\* C26: in a backfill pass, with or without skipExisting, a file whose
\* record an earlier sync wrote without coordinates, and whose lookup
\* answered, is not downloaded again.
C26_NoGpsIsTerminal ==
    [][( /\ pc = "sf_fetch"
         /\ sf.caller = "backfill"
         /\ ~lookupFailed'
         /\ \E d \in DocsNamed(LookupName(sf.file.name, sf.file.fileExtension)) :
               ~d.coords )
       => trace'.step # "download"]_vars

\* C30: a SyncFile whose lookup fails with another error than 'not found'
\* returns an error for the file and goes on to no download, no upload and
\* no CreateImageMetadata.
C30_LookupErrorIsReturned ==
    [][( /\ pc = "sf_fetch"
         /\ ~lookupFailed
         /\ lookupFailed' )
       => ( /\ pc' = AfterPc(sf.caller)
            /\ sfErr' # "nil"
            /\ trace'.step # "download" )]_vars

\* C29: for a HEIC or HEIF file as ListFilesInFolder describes it, the name
\* the lookup of SyncFile asks for is the name under which SyncFile stores
\* the converted file, and when an earlier sync recorded the converted copy
\* the lookup finds the record: the file is skipped, or downloaded with the
\* record at hand and not in skipExisting mode.
C29_LookupByConvertedName ==
    /\ [](( /\ pc = "sf_fetch"
            /\ IsHeifLike(sf.file.mimeType) )
          => LookupName(sf.file.name, sf.file.fileExtension)
                = Converted(sf.file, TRUE).name)
    /\ [][( /\ pc = "sf_fetch"
            /\ IsHeifLike(sf.file.mimeType)
            /\ ~lookupFailed'
            /\ DocsNamed(Converted(sf.file, TRUE).name) # {}
            /\ trace'.step = "download" )
          => ( /\ ~sf.skipExisting
               /\ pc' = "sf_store" => sf'.existing.found )]_vars

(***************************************************************************)
(* The rate of the geocoding requests (SpecGeocode).                       *)
(***************************************************************************)
InitGeocode == SyncInit(<< >>) /\ ClientInit /\ ServiceInit

NextGeocode == GeoElapse \/ SyncDownload \/ SyncGeocode \/ SyncNoGeocode

SpecGeocode == InitGeocode /\ [][NextGeocode]_vars

\* C27: any two consecutive upstream geocoding requests of the sync are at
\* least one second apart.
C27_GeocodingRequestsOneSecondApart ==
    geocoding.gap # Never => geocoding.gap >= Seconds(1)

(***************************************************************************)
(* The formatting of timestamps (SpecFormat).                              *)
(***************************************************************************)
InitFormat == SyncInit(<< >>) /\ ClientInit /\ ServiceInit

NextFormat == FormatTimestampCall

SpecFormat == InitFormat /\ [][NextFormat]_vars

\* A timestamp in RFC 3339, in the EXIF layout or in ISO 8601 without zone.
Supported(timestamp) ==
    /\ timestamp.shape = "stamp"
    /\ timestamp.month \in 1..12
    /\ timestamp.hour \in 0..23
    /\ \/ timestamp.dsep = "-" /\ timestamp.tsep = "T"
       \/ timestamp.dsep = ":" /\ timestamp.tsep = " " /\ timestamp.zone = ""

\* C28: FormatTimestamp returns a non-empty string and no error for a
\* timestamp in one of the three layouts, and an error for any other input.
C28_FormatTimestampLayouts ==
    formatted.called
    => IF Supported(formatted.timestamp)
       THEN ~formatted.result.err /\ formatted.result.formatted # << >>
       ELSE formatted.result.err

\* C28's case: a timestamp in the EXIF layout was formatted, the 15th of
\* January 2025 as a Wednesday.
C28_Witness ==
    /\ formatted.called
    /\ formatted.timestamp = Stamp(":", " ", "", 1, 9)
    /\ formatted.result = [formatted |-> <<"Wednesday", 15, "January", 2025,
                                           <<0, 9>>, <<3, 0>>>>,
                           err |-> FALSE]

(***************************************************************************)
(* The merge into an existing record (SpecExtract).                        *)
(***************************************************************************)
\* C31: when ExtractAndPersistMetadata merges into an existing record, the
\* coordinates, the place name, the formatted date and the capture time
\* that the record had are still there afterwards, whatever the extraction
\* and the geocoding gave.
C31_MergeKeepsResolvedFields ==
    (extraction.called /\ extraction.existing.res.found)
    => LET before == extraction.existing.res.doc
           after == extraction.metadata
       IN  /\ before.coords => after.coords
           /\ before.geo => after.geo
           /\ before.date => after.date
           /\ before.taken => after.taken

(***************************************************************************)
(* The stages of a resolution (SpecResolver).                              *)
(***************************************************************************)
\* C32: the resolution of a record that has coordinates and a formatted
\* date fetches nothing from the object store, asks the provider for
\* nothing, and returns the record with the same coordinates and the same
\* formatted date.
C32_ResolvedRecordIsLeftAlone ==
    ( /\ resolution.called
      /\ resolution.metadata.coordinates # Nil
      /\ resolution.metadata.formattedDate # "" )
    => ( /\ ~resolution.fetched
         /\ ~resolution.found
         /\ resolution.resolved.coordinates = resolution.metadata.coordinates
         /\ resolution.resolved.formattedDate = resolution.metadata.formattedDate )

\* C32's case: the storage-first resolution of a record with coordinates and
\* a date but no place, on a resolver with a Drive client and stored bytes
\* that hold other coordinates; the geocoder gave the place.
C32_Witness ==
    /\ resolution.called
    /\ ~resolution.skipStorage
    /\ resolution.metadata = ImageMetadata(RecordedCoordinates, "", RecordedDate)
    /\ resolution.env.fetchOk /\ resolution.env.drive /\ resolution.env.findOk
    /\ resolution.env.data = Bytes(ExifCoordinates, ExifTime)
    /\ resolution.resolved.geoLocation = "London, United Kingdom"

\* The stages of a resolution that failed: the fetch from the object store,
\* the extraction from the bytes, the Find of the provider, the extraction
\* from its descriptor.
FailedStages(r) ==
    {st \in {"fetch", "extract", "find", "drive"} :
        CASE st = "fetch"   -> r.fetched /\ ~r.env.fetchOk
          [] st = "extract" -> r.fetched /\ r.env.fetchOk /\ ExtractData(r.env.data).err
          [] st = "find"    -> r.found /\ ~r.env.findOk
          [] st = "drive"   -> r.found /\ r.env.findOk
                               /\ extractDataFromDriveMetadata(r.env.file).err
          [] OTHER          -> FALSE}

\* C33: a resolution returns the record and no error, with the record's
\* UpdatedAt at the instant of the call, whichever of its stages failed and
\* whether or not a source gave anything.
C33_ResolutionNeverAborts ==
    resolution.called
    => ( /\ resolution.err = "nil"
         /\ resolution.updatedAt = resolution.at )

\* C33's case: the fetch from the object store and the Find both failed,
\* nothing was resolved, and the call returned at instant 2.
C33_Witness ==
    /\ resolution.called
    /\ {"fetch", "find"} \subseteq FailedStages(resolution)
    /\ resolution.source = "none"
    /\ resolution.resolved = resolution.metadata
    /\ resolution.at = 2


\* The sources of the call hold a capture timestamp: the bytes fetched from
\* the object store, or the descriptor the provider's Find returned.
SourcesHoldTimestamp(r) ==
    \/ ~r.skipStorage /\ r.env.fetchOk /\ r.env.data.time # ""
    \/ r.env.drive /\ r.env.findOk /\ r.env.file.meta /\ r.env.file.time # ""

\* The sources of the call hold no coordinates.
SourcesHoldNoCoordinates(r) ==
    /\ r.env.data.gps = Nil
    /\ r.env.file.location = Nil

\* C34: place name and date are resolved independently; when the sources of
\* a record without coordinates and date hold a capture timestamp but no
\* coordinates, the resolved record receives its formatted date.
C34_DateWithoutCoordinates ==
    ( /\ resolution.called
      /\ resolution.metadata.coordinates = Nil
      /\ resolution.metadata.formattedDate = ""
      /\ SourcesHoldTimestamp(resolution)
      /\ SourcesHoldNoCoordinates(resolution) )
    => resolution.resolved.formattedDate # ""


(***************************************************************************)
(* Concurrent reverse geocodings (SpecGeoRace).                            *)
(***************************************************************************)
InitGeoRace == SyncInit(<< >>) /\ ClientInit /\ ServiceInit

NextGeoRace ==
    \E c \in Goroutines :
        \/ GeoNormalize(c)
        \/ GeoReadCheck(c)
        \/ GeoWait(c)
        \/ GeoFetch(c)
        \/ GeoWrite(c)

SpecGeoRace == InitGeoRace /\ [][NextGeoRace]_vars

\* The callers that returned without error for a key.
Succeeded(key) ==
    {c \in Goroutines : /\ race.callers[c].pc = "done"
                     /\ race.callers[c].err = "nil"
                     /\ race.callers[c].key = key}

\* No result was stored over a place the key held.
NeverOverwritten == \A i \in 1..Len(race.stored) : race.stored[i].was = ""

\* C35 as stated: a place a key holds is never overwritten, and all calls for
\* one key that return without error return the same string.
C35_SameKeySamePlaceAlways ==
    /\ NeverOverwritten
    /\ \A a, b \in Goroutines :
          (a \in Succeeded(race.callers[b].key) /\ b \in Succeeded(race.callers[b].key))
          => race.callers[a].location = race.callers[b].location

\* C35, amended: a non-empty place a key holds is never overwritten, and all
\* calls for one key that return a non-empty place return the same place; a
\* caller that fetched another place than the one stored returns the stored
\* one.
C35_SameKeySamePlace ==
    /\ NeverOverwritten
    /\ \A a, b \in Goroutines :
          ( /\ a \in Succeeded(race.callers[b].key)
            /\ b \in Succeeded(race.callers[b].key)
            /\ race.callers[a].location # ""
            /\ race.callers[b].location # "" )
          => race.callers[a].location = race.callers[b].location
    /\ \A c \in Goroutines :
          (c \in Succeeded(race.callers[c].key) /\ race.callers[c].location # "")
          => race.callers[c].location = Cached(race.cache, race.callers[c].key)

\* C35's case: a caller lost the race: it fetched a place of its own and
\* returned the other one, which the cache held when it took the write lock.
C35_Witness ==
    \E a, b \in Goroutines :
        /\ a # b
        /\ race.callers[a].key = race.callers[b].key
        /\ {a, b} \subseteq Succeeded(race.callers[a].key)
        /\ race.callers[a].result = "London, United Kingdom"
        /\ race.callers[b].result = "Westminster, United Kingdom"
        /\ race.callers[a].location = "London, United Kingdom"
        /\ race.callers[b].location = "London, United Kingdom"


(***************************************************************************)
(* The watch loop and its watermark (SpecWatch): the server started        *)
(* without backfill and never shut down, with the history of its ticks.    *)
(***************************************************************************)
InitWatch ==
    /\ SyncInitWith(<< >>, {}, {}, [NoWatched EXCEPT !.audit = TRUE])
    /\ ClientInit
    /\ ServiceInit

\* StartDriveSync with backfillOnStartup false.
StartWatch == StartDriveSync /\ pc' = "w_select"

NextWatch ==
    \/ CreateFile
    \/ Tick
    \/ StartWatch
    \/ SyncFileStep
    \/ WatchTick
    \/ WatchList
    \/ WatchLoop
    \/ WatchAfterSync

SpecWatch == InitWatch /\ [][NextWatch]_vars

\* The ids of the listed files the tick has passed to SyncFile.
AttemptedIds == {attempted[j] : j \in 1..Len(attempted)}

\* C36: a watch tick whose listing fails goes back to the select with
\* lastCheck and the watch's result as they were, and the tick that lists
\* after it passes to SyncFile every file created after lastCheck, the ones
\* created before the failed tick included.
C36_FailedListingKeepsWatermark ==
    [][ /\ (pc = "w_list" /\ pc' \notin {"w_list", "w_loop"})
           => /\ pc' = "w_select"
              /\ lastCheck' = lastCheck
              /\ watchResult' = watchResult
        /\ (pc = "w_loop" /\ watched.missed # {})
           => \A i \in 1..idx :
                 files[i].createdTime > lastCheck => files[i].id \in AttemptedIds
      ]_vars

\* C36's case: after a tick whose listing failed, a tick has passed to
\* SyncFile a file created before the failed tick.
C36_Witness ==
    /\ pc = "w_loop"
    /\ \E t \in watched.missed :
          \E i \in 1..idx :
             /\ files[i].createdTime =< t
             /\ files[i].createdTime > lastCheck
             /\ files[i].id \in AttemptedIds


\* The ids of the files a tick of this watch has passed to SyncFile.
TriedIds == {r.id : r \in watched.tried}

\* C39: a tick passes to SyncFile no file that a tick of the same watch has
\* passed to it before, whether that call succeeded or failed.  The provider
\* stamps a file no later than the listing that holds it returns.
C39_AtMostOneTickPerFile ==
    [][ (pc = "w_loop" /\ pc' = "sf_fetch") => files[idx + 1].id \notin TriedIds ]_vars

\* C39's case: a tick has gone past two files that earlier ticks passed to
\* SyncFile, one with an error and one without, and left both.
C39_Witness ==
    /\ pc = "w_loop"
    /\ \E i, k \in 1..idx :
          /\ [id |-> files[i].id, failed |-> TRUE] \in watched.tried
          /\ [id |-> files[k].id, failed |-> FALSE] \in watched.tried
          /\ files[i].id \notin AttemptedIds
          /\ files[k].id \notin AttemptedIds


(***************************************************************************)
(* The order of backfill and watch in StartDriveSync (Spec).               *)
(***************************************************************************)
\* C37: the goroutine of StartDriveSync enters the watch from the start,
\* when no backfill is asked for, or from the return of the backfill; after
\* the backfill returns the watch starts if and only if the result is not
\* context.Canceled, and a tick lists the folder only from the watch's
\* select.
C37_WatchFollowsBackfill ==
    [][ /\ (pc = "bf_ret" /\ mode = "server" /\ pc' # "bf_ret")
           => /\ pc' \in {"w_select", "exit"}
              /\ pc' = "w_select" <=> bfResult # "canceled"
        /\ (pc' \in WatchPcs /\ pc \notin WatchPcs \cup SyncFilePcs)
           => pc \in {"idle", "bf_ret"}
        /\ (InBackfill /\ pc # "bf_ret") => pc' \notin WatchPcs
      ]_vars

\* C37's case: a backfill ended with errors in its files and a tick of the
\* watch that followed it is about to list the folder.
C37_Witness ==
    /\ mode = "server"
    /\ pc = "w_list"
    /\ watched.after = "errors"


(***************************************************************************)
(* The first call through a new client (SpecClient).                       *)
(***************************************************************************)
\* No call was made through the client yet: every caller is outside a call
\* and has no result.
Fresh == \A c \in Callers : cpc[c] = "idle" /\ result[c] = NoResult

\* C38: the pacing wait of the first call through a newly constructed
\* DriveClient sleeps for zero time, whenever the call is made.
C38_FirstCallIsImmediate == Fresh => PacingSleep(sinceLast) = 0


(***************************************************************************)
(* The initialisation of the serverless entry point (SpecBoot).            *)
(***************************************************************************)
InitBoot == SyncInit(<< >>) /\ ClientInit /\ ServiceInit

NextBoot ==
    \E r \in Invocations :
        \/ Invoke(r)
        \/ OnceDo(r)
        \/ LoadConfig(r)
        \/ InitServices(r)
        \/ StartSync(r)
        \/ SetHandler(r)
        \/ Respond(r)

SpecBoot == InitBoot /\ [][NextBoot]_vars

====
